---------------------------- MODULE Spec2Model ----------------------------
(***************************************************************************)
(* A model of sentrylogmon's monitoring pipeline (rust/src/monitor/mod.rs  *)
(* and the detectors and sources it drives).                               *)
(*                                                                         *)
(* Time is an integer number of ticks of 100 ms: an Instant of the code is  *)
(* a tick count and a Duration a tick difference.  The source sets         *)
(* MAX_BUFFER_SIZE to 1000 lines and FLUSH_INTERVAL to 5 s (50 ticks), and  *)
(* a second is 10 ticks; the model keeps the code's comparisons and scales *)
(* these three numbers down (see their definitions).                       *)
(***************************************************************************)
EXTENDS Integers, Sequences, FiniteSets, TLC

(***************************************************************************)
(* Bounds of the model.                                                    *)
(***************************************************************************)
\* Latest clock value: Tick stops there.
MaxTime == 3
\* Lines a Monitor reads from its source over all stream attempts.
MaxLines == 3
\* allow() calls made on a stand-alone RateLimiter (specification SpecRL).
MaxCalls == 6
\* monitor/mod.rs:13 sets 1000; scaled down, every use keeps the code's comparison.
MAX_BUFFER_SIZE == 3
\* monitor/mod.rs:14 sets 5 s, 50 ticks; scaled down.
FLUSH_INTERVAL == 3
\* Duration::from_millis(100), which the idle check subtracts from FLUSH_INTERVAL.
FLUSH_SLACK == 1
\* Ticks in one second (Duration::from_secs): 10, scaled down.
TICKS_PER_SEC == 1
\* Latest clock value of the promptly scheduled Monitor (specification SpecIdle).
MaxIdleTime == 7
\* detect() calls made on a stand-alone DmesgDetector (specification SpecDmesg).
MaxDetects == 3
\* Monitors in the configuration main() goes through (specification SpecMain).
MaxMonitors == 2
\* stream() and close() calls made on a stand-alone LogSource (specification SpecSource).
MaxSrcCalls == 3
\* Messages sent on the channel of a ChannelReader (specification SpecChannel).
MaxMsgs == 3
\* The room in the buffer a caller hands to poll_read.
MaxBuf == 2
\* Datagrams, connections and lines that arrive from the network at a SyslogSource.
MaxArrivals == 3
\* The same when the Monitor drives the SyslogSource (specification SpecSyslog).
MaxSyslogArrivals == 4
\* The capacity of the channel between the syslog listeners and the reader (100).
CHANNEL_CAPACITY == 2

(***************************************************************************)
(* Option and Result values.                                               *)
(***************************************************************************)
None == [some |-> FALSE]
Some(x) == [some |-> TRUE, val |-> x]
Ok(x) == [ok |-> TRUE, val |-> x]
Err(e) == [ok |-> FALSE, err |-> e]

(***************************************************************************)
(* Strings are sequences of characters.                                    *)
(***************************************************************************)
\* str::strip_suffix: the string without the suffix, None when it does not end with it.
StripSuffix(s, suf) ==
    IF Len(s) >= Len(suf) /\ SubSeq(s, Len(s) - Len(suf) + 1, Len(s)) = suf
    THEN Some(SubSeq(s, 1, Len(s) - Len(suf)))
    ELSE None

DigitChars == "0123456789"
IsDigit(c) == \E d \in 1..10 : SubSeq(DigitChars, d, d) = c
DigitVal(c) == (CHOOSE d \in 1..10 : SubSeq(DigitChars, d, d) = c) - 1

RECURSIVE DigitsValue(_)
DigitsValue(s) ==
    IF Len(s) = 0 THEN 0
    ELSE 10 * DigitsValue(SubSeq(s, 1, Len(s) - 1)) + DigitVal(SubSeq(s, Len(s), Len(s)))

\* str::parse::<u64>: an optional '+', then one or more decimal digits.
ParseU64(s) ==
    LET body == IF Len(s) > 0 /\ SubSeq(s, 1, 1) = "+" THEN SubSeq(s, 2, Len(s)) ELSE s
    IN IF Len(body) > 0 /\ \A i \in 1..Len(body) : IsDigit(SubSeq(body, i, i))
       THEN Some(DigitsValue(body))
       ELSE None

Char(s, i) == SubSeq(s, i, i)

\* str::starts_with
StartsWith(s, prefix) == Len(s) >= Len(prefix) /\ SubSeq(s, 1, Len(prefix)) = prefix

\* The literal occurs in the text.
Occurs(literal, text) ==
    \E i \in 1..(Len(text) - Len(literal) + 1) :
        SubSeq(text, i, i + Len(literal) - 1) = literal

UpperChars == "ABCDEFGHIJKLMNOPQRSTUVWXYZ"
LowerChars == "abcdefghijklmnopqrstuvwxyz"

\* The lower-case letter of an upper-case letter, any other character itself.
LowerOf(c) ==
    IF \E i \in 1..26 : Char(UpperChars, i) = c
    THEN Char(LowerChars, CHOOSE i \in 1..26 : Char(UpperChars, i) = c)
    ELSE c

RECURSIVE ToLower(_)
ToLower(s) == IF Len(s) = 0 THEN s ELSE LowerOf(Char(s, 1)) \o ToLower(SubSeq(s, 2, Len(s)))

\* The pieces of s between the occurrences of the character sep.
RECURSIVE Split(_, _)
Split(s, sep) ==
    IF \E i \in 1..Len(s) : Char(s, i) = sep
    THEN LET i == CHOOSE k \in 1..Len(s) :
                      /\ Char(s, k) = sep
                      /\ \A j \in 1..(k - 1) : Char(s, j) # sep
         IN <<SubSeq(s, 1, i - 1)>> \o Split(SubSeq(s, i + 1, Len(s)), sep)
    ELSE <<s>>

\* Regex::is_match for the patterns in use: a literal or a group of alternative literals
\* "(a|b|c)", after an optional "(?i)" that makes the match case-insensitive.  The
\* match is unanchored: one of the literals occurs in the text.
IsMatch(pattern, text) ==
    LET ci == StartsWith(pattern, "(?i)")
        body == IF ci THEN SubSeq(pattern, 5, Len(pattern)) ELSE pattern
        group == Len(body) >= 2 /\ Char(body, 1) = "(" /\ Char(body, Len(body)) = ")"
        alts == IF group THEN Split(SubSeq(body, 2, Len(body) - 1), "|") ELSE <<body>>
        subject == IF ci THEN ToLower(text) ELSE text
    IN \E k \in DOMAIN alts : Occurs(IF ci THEN ToLower(alts[k]) ELSE alts[k], subject)

\* Regex::new for the patterns in use: a pattern whose parentheses do not balance or
\* whose bracket is not closed is a syntax error.
RegexNew(pattern) ==
    LET n == Len(pattern)
        Opens(k) == Cardinality({i \in 1..k : Char(pattern, i) = "("})
        Closes(k) == Cardinality({i \in 1..k : Char(pattern, i) = ")"})
        balanced == /\ Opens(n) = Closes(n)
                    /\ \A k \in 1..n : Closes(k) <= Opens(k)
        bracketed == \A i \in 1..n :
                         Char(pattern, i) = "[" => \E j \in (i + 1)..n : Char(pattern, j) = "]"
    IN IF balanced /\ bracketed THEN Ok(pattern) ELSE Err("regex parse error")

\* Duration::from_secs, in ticks.
DurationFromSecs(secs) == secs * TICKS_PER_SEC


(***************************************************************************)
(* Detectors (detectors/mod.rs).                                           *)
(***************************************************************************)
\* A GenericDetector with a compiled pattern.
GenericDetector(pattern) == [kind |-> "generic", pattern |-> pattern]

\* GenericDetector::new: the error of Regex::new is passed on.
GenericDetectorNew(pattern) ==
    IF RegexNew(pattern).ok THEN Ok(GenericDetector(pattern)) ELSE RegexNew(pattern)

\* NginxDetector::new
NginxDetector ==
    [kind |-> "nginx", detector |-> GenericDetector("(?i)(error|critical|crit|alert|emerg)")]

\* DmesgDetector::new: the error vocabulary and an empty last match.
DmesgDetector ==
    [kind |-> "dmesg",
     detector |-> GenericDetector("(?i)(error|fail|panic|oops|exception)"),
     state |-> [last_match_time |-> 0, last_match_header |-> ""]]

\* An f64 number of seconds is kept in thousandths.
Milli(secs) == 1000 * secs

\* str::parse::<f64> of digits '.' digits (three decimals are kept).
ParseF64(text) ==
    LET parts == Split(text, ".")
    IN Milli(DigitsValue(parts[1])) + DigitsValue(SubSeq(parts[2] \o "000", 1, 3))

\* \s
IsSpace(c) == c \in {" ", "\t"}

\* The first index from i on where s has no white space.
RECURSIVE SkipSpaces(_, _)
SkipSpaces(s, i) == IF i <= Len(s) /\ IsSpace(Char(s, i)) THEN SkipSpaces(s, i + 1) ELSE i

\* The first index from i on where s has no digit.
RECURSIVE SkipDigits(_, _)
SkipDigits(s, i) == IF i <= Len(s) /\ IsDigit(Char(s, i)) THEN SkipDigits(s, i + 1) ELSE i

\* The first index from i on where s has a colon, Len(s) + 1 if it has none.
RECURSIVE FindColon(_, _)
FindColon(s, i) == IF i <= Len(s) /\ Char(s, i) # ":" THEN FindColon(s, i + 1) ELSE i

\* dmesg_start_regex ^\[\s*\d+\.\d+\]: the digits it spans and where its ']' is.
StartMatch(s) ==
    IF Len(s) = 0 \/ Char(s, 1) # "[" THEN None
    ELSE LET a == SkipSpaces(s, 2)
             b == SkipDigits(s, a)
         IN IF b = a \/ b > Len(s) \/ Char(s, b) # "." THEN None
            ELSE LET c == SkipDigits(s, b + 1)
                 IN IF c = b + 1 \/ c > Len(s) \/ Char(s, c) # "]" THEN None
                    ELSE Some([text |-> SubSeq(s, a, c - 1), end |-> c])

\* dmesg_line_regex ^\[\s*(\d+\.\d+)\]\s*([^:]+): and its two groups.  Group 2 runs up
\* to the first colon; it starts behind the white space, or on the last white space
\* character when the colon follows the white space at once.
LineMatch(s) ==
    LET st == StartMatch(s)
    IN IF ~st.some THEN None
       ELSE LET r == st.val.end + 1
                w == SkipSpaces(s, r)
                k == FindColon(s, w)
            IN IF k > Len(s) THEN None
               ELSE IF k > w
                    THEN Some([timestamp |-> st.val.text, header |-> SubSeq(s, w, k - 1)])
               ELSE IF w > r
                    THEN Some([timestamp |-> st.val.text, header |-> Char(s, w - 1)])
               ELSE None

\* str::trim
RECURSIVE Trim(_)
Trim(s) ==
    IF Len(s) > 0 /\ IsSpace(Char(s, 1)) THEN Trim(SubSeq(s, 2, Len(s)))
    ELSE IF Len(s) > 0 /\ IsSpace(Char(s, Len(s))) THEN Trim(SubSeq(s, 1, Len(s) - 1))
    ELSE s

\* are_headers_related
AreHeadersRelated(header1, header2) ==
    LET h1 == Trim(header1)
        h2 == Trim(header2)
    IN IF h1 = "" \/ h2 = "" THEN FALSE
       ELSE IF h1 = h2 THEN TRUE
       ELSE StartsWith(h1, h2) \/ StartsWith(h2, h1)

\* Mutant of DmesgDetect: context is looked for even when no header has been recorded.
DmesgDetect_NoHeaderGuard(d, line) ==
    LET is_error == IsMatch(d.detector.pattern, line)
        is_dmesg_line == StartMatch(line).some
        caps == LineMatch(line)
        timestamp == IF caps.some THEN ParseF64(caps.val.timestamp) ELSE 0
        header == IF caps.some THEN caps.val.header ELSE ""
        state == d.state
    IN IF is_error
       THEN [d |-> [d EXCEPT !.state =
                        [last_match_time |-> IF timestamp > 0 THEN timestamp
                                              ELSE state.last_match_time,
                         last_match_header |-> IF header # "" THEN header
                                                ELSE state.last_match_header]],
             result |-> TRUE]
       ELSE IF is_dmesg_line
            THEN [d |-> d,
                  result |-> /\ header # ""
                             /\ timestamp > 0
                             /\ timestamp - state.last_match_time <= Milli(5)
                             /\ AreHeadersRelated(state.last_match_header, header)]
            ELSE [d |-> d, result |-> TRUE]

\* Mutant of DmesgDetect: a continuation line is never reported.
DmesgDetect_DropsContinuation(d, line) ==
    LET is_error == IsMatch(d.detector.pattern, line)
        is_dmesg_line == StartMatch(line).some
        caps == LineMatch(line)
        timestamp == IF caps.some THEN ParseF64(caps.val.timestamp) ELSE 0
        header == IF caps.some THEN caps.val.header ELSE ""
        state == d.state
    IN IF is_error
       THEN [d |-> [d EXCEPT !.state =
                        [last_match_time |-> IF timestamp > 0 THEN timestamp
                                              ELSE state.last_match_time,
                         last_match_header |-> IF header # "" THEN header
                                                ELSE state.last_match_header]],
             result |-> TRUE]
       ELSE IF state.last_match_header # ""
       THEN IF is_dmesg_line
            THEN [d |-> d,
                  result |-> /\ header # ""
                             /\ timestamp > 0
                             /\ timestamp - state.last_match_time <= Milli(5)
                             /\ AreHeadersRelated(state.last_match_header, header)]
            ELSE [d |-> d, result |-> FALSE]
       ELSE [d |-> d, result |-> FALSE]

\* DmesgDetector::detect: the answer, and the detector with the state the call leaves.
DmesgDetect(d, line) ==
    LET is_error == IsMatch(d.detector.pattern, line)
        is_dmesg_line == StartMatch(line).some
        caps == LineMatch(line)
        timestamp == IF caps.some THEN ParseF64(caps.val.timestamp) ELSE 0
        header == IF caps.some THEN caps.val.header ELSE ""
        state == d.state
    IN IF is_error
       THEN [d |-> [d EXCEPT !.state =
                        [last_match_time |-> IF timestamp > 0 THEN timestamp
                                              ELSE state.last_match_time,
                         last_match_header |-> IF header # "" THEN header
                                                ELSE state.last_match_header]],
             result |-> TRUE]
       ELSE IF state.last_match_header # ""
       THEN IF is_dmesg_line
            THEN [d |-> d,
                  result |-> /\ header # ""
                             /\ timestamp > 0
                             /\ timestamp - state.last_match_time <= Milli(5)
                             /\ AreHeadersRelated(state.last_match_header, header)]
            ELSE [d |-> d, result |-> TRUE]
       ELSE [d |-> d, result |-> FALSE]

\* Detector::detect, the answer
Detect(d, line) ==
    IF d.kind = "generic" THEN IsMatch(d.pattern, line)
    ELSE IF d.kind = "nginx" THEN IsMatch(d.detector.pattern, line)
    ELSE DmesgDetect(d, line).result

\* Detector::detect, the detector it leaves: the correlator keeps its last match.
Detected(d, line) == IF d.kind = "dmesg" THEN DmesgDetect(d, line).d ELSE d

\* Mutant of GetDetector: the format hint is looked at before the pattern.
GetDetector_FormatFirst(format, pattern) ==
    IF format = "nginx" THEN Ok(NginxDetector)
    ELSE IF format = "dmesg" THEN Ok(DmesgDetector)
    ELSE IF pattern # "" THEN GenericDetectorNew(pattern)
    ELSE GenericDetectorNew("(?i)error")

\* get_detector
GetDetector(format, pattern) ==
    IF pattern # "" THEN GenericDetectorNew(pattern)
    ELSE IF format = "nginx" THEN Ok(NginxDetector)
    ELSE IF format = "dmesg" THEN Ok(DmesgDetector)
    ELSE GenericDetectorNew("(?i)error")

(***************************************************************************)
(* RateLimiter (monitor/mod.rs).                                           *)
(***************************************************************************)
\* RateLimiter::new at instant t
NewRateLimiter(limit, window, t) ==
    [limit |-> limit, window |-> window, count |-> 0, window_start |-> t]

\* Mutant of Allow: the count may reach limit + 1.
Allow_OneTooMany(rl, t) ==
    IF rl.limit = 0 THEN [rl |-> rl, ok |-> TRUE]
    ELSE LET r == IF t - rl.window_start > rl.window
                  THEN [rl EXCEPT !.window_start = t, !.count = 0]
                  ELSE rl
         IN IF r.count <= r.limit
            THEN [rl |-> [r EXCEPT !.count = @ + 1], ok |-> TRUE]
            ELSE [rl |-> r, ok |-> FALSE]

\* Mutant of Allow: an elapsed window moves the window start and keeps the count.
Allow_KeepsCount(rl, t) ==
    IF rl.limit = 0 THEN [rl |-> rl, ok |-> TRUE]
    ELSE LET r == IF t - rl.window_start > rl.window
                  THEN [rl EXCEPT !.window_start = t]
                  ELSE rl
         IN IF r.count < r.limit
            THEN [rl |-> [r EXCEPT !.count = @ + 1], ok |-> TRUE]
            ELSE [rl |-> r, ok |-> FALSE]

\* Mutant of Allow: a zero window never elapses.
Allow_ZeroNeverElapses(rl, t) ==
    IF rl.limit = 0 THEN [rl |-> rl, ok |-> TRUE]
    ELSE LET r == IF rl.window > 0 /\ t - rl.window_start > rl.window
                  THEN [rl EXCEPT !.window_start = t, !.count = 0]
                  ELSE rl
         IN IF r.count < r.limit
            THEN [rl |-> [r EXCEPT !.count = @ + 1], ok |-> TRUE]
            ELSE [rl |-> r, ok |-> FALSE]

\* Mutant of Allow: a zero limit is counted like any other.
Allow_ZeroLimitCounts(rl, t) ==
    LET r == IF t - rl.window_start > rl.window
             THEN [rl EXCEPT !.window_start = t, !.count = 0]
             ELSE rl
    IN IF r.count < r.limit
       THEN [rl |-> [r EXCEPT !.count = @ + 1], ok |-> TRUE]
       ELSE [rl |-> r, ok |-> FALSE]

\* Mutant of Allow: the window is started anew at every later instant.
Allow_AnyElapse(rl, t) ==
    IF rl.limit = 0 THEN [rl |-> rl, ok |-> TRUE]
    ELSE LET r == IF t - rl.window_start > 0
                  THEN [rl EXCEPT !.window_start = t, !.count = 0]
                  ELSE rl
         IN IF r.count < r.limit
            THEN [rl |-> [r EXCEPT !.count = @ + 1], ok |-> TRUE]
            ELSE [rl |-> r, ok |-> FALSE]

\* RateLimiter::allow at instant t: the limiter after the call and the value returned.
Allow(rl, t) ==
    IF rl.limit = 0 THEN [rl |-> rl, ok |-> TRUE]
    ELSE LET r == IF t - rl.window_start > rl.window
                  THEN [rl EXCEPT !.window_start = t, !.count = 0]
                  ELSE rl
         IN IF r.count < r.limit
            THEN [rl |-> [r EXCEPT !.count = @ + 1], ok |-> TRUE]
            ELSE [rl |-> r, ok |-> FALSE]

(***************************************************************************)
(* Monitor::new: what it derives from the configuration.                   *)
(***************************************************************************)
\* Result::ok
ResultOk(r) == IF r.ok THEN Some(r.val) ELSE None

\* The exclusion detector of Monitor::new: none for an absent or empty pattern, and
\* none for a pattern get_detector fails on.
NewExclusionDetector(exclude_pattern) ==
    IF exclude_pattern.some /\ Len(exclude_pattern.val) > 0
    THEN ResultOk(GetDetector("custom", exclude_pattern.val))
    ELSE None

\* rate_limit_burst.unwrap_or(0)
NewBurst(rate_limit_burst) ==
    IF rate_limit_burst.some THEN rate_limit_burst.val ELSE 0

\* The window of Monitor::new: "<n>s" or "<n>m", anything else leaves zero.
NewWindow(rate_limit_window) ==
    IF ~rate_limit_window.some THEN DurationFromSecs(0)
    ELSE LET w == rate_limit_window.val
             s == StripSuffix(w, "s")
             m == StripSuffix(w, "m")
         IN IF s.some
            THEN (IF ParseU64(s.val).some
                  THEN DurationFromSecs(ParseU64(s.val).val)
                  ELSE DurationFromSecs(0))
            ELSE IF m.some
            THEN (IF ParseU64(m.val).some
                  THEN DurationFromSecs(ParseU64(m.val).val * 60)
                  ELSE DurationFromSecs(0))
            ELSE DurationFromSecs(0)

\* Mutant of Join: the lines are joined last to first.
RECURSIVE Join_Reversed(_)
Join_Reversed(lines) ==
    IF Len(lines) = 0 THEN ""
    ELSE IF Len(lines) = 1 THEN lines[1]
    ELSE Join_Reversed(Tail(lines)) \o "\n" \o lines[1]

\* Vec::join("\n")
RECURSIVE Join(_)
Join(lines) ==
    IF Len(lines) = 0 THEN ""
    ELSE IF Len(lines) = 1 THEN lines[1]
    ELSE lines[1] \o "\n" \o Join(Tail(lines))

(***************************************************************************)
(* Inputs.                                                                 *)
(***************************************************************************)
\* Lines a source can produce (AsyncBufReadExt::lines strips the line ends).
Lines == {"ok", "Error: disk full", "Error: timeout"}
\* Primary patterns (MonitorConfig.pattern).
Patterns == {"Error"}
\* exclude_pattern as main.rs passes it, and absent.
ExcludePatterns == {Some(""), Some("disk full")}
\* rate_limit_burst
BurstConfigs == {None, Some(0), Some(1)}
\* rate_limit_window
WindowConfigs == {None, Some("2s")}
\* rate_limit_burst and rate_limit_window of the stand-alone RateLimiter
LimiterBursts == {None, Some(0), Some(1), Some(2)}
LimiterWindows ==
    {None, Some("0s"), Some("1s"), Some("2s"), Some("1m"), Some("xs"), Some("3"), Some("s")}

Tasks == {"reader", "timer"}

(***************************************************************************)
(* Sources (sources/mod.rs: LogSource).                                    *)
(***************************************************************************)
\* A source whose stream yields whatever arrives, out of the given lines: a process, a
\* socket.
StreamSource(lines) == [kind |-> "stream", lines |-> lines]

AnySource == StreamSource(Lines)

\* FileSource::new(path): the file at the path holds the given lines; pos is how many
\* of them the reader of the last stream() call has yielded.
FileSource(content) == [kind |-> "file", content |-> content, pos |-> 0]

\* stream() returned Ok: FileSource::stream opens the path anew, at its first line.
Opened(src) == IF src.kind = "file" THEN [src EXCEPT !.pos = 0] ELSE src

\* The lines the next Ok(Some(line)) of next_line() can carry.
NextLines(src) ==
    IF src.kind = "file"
    THEN IF src.pos < Len(src.content) THEN {src.content[src.pos + 1]} ELSE {}
    ELSE src.lines

\* The reader has yielded a line.
Advanced(src) == IF src.kind = "file" THEN [src EXCEPT !.pos = src.pos + 1] ELSE src

\* next_line() can give Ok(None): a file is at its end; another stream can end any time.
AtEnd(src) == src.kind = "file" => src.pos = Len(src.content)

\* The files of the file-source scenarios.
Files ==
    {<<"ok", "Error: disk full", "ok">>,
     <<"Error: disk full", "Error: timeout">>,
     <<"ok">>}

VARIABLES
    cfg,                \* the arguments of Monitor::new
    detector,           \* Monitor.detector
    exclusion_detector, \* Monitor.exclusion_detector
    stop_on_eof,        \* Monitor.stop_on_eof
    buffer,             \* Monitor.buffer: the lines it holds
    bufferLock,         \* the holder of the buffer's Mutex, "free" if none
    last_activity,      \* Monitor.last_activity
    rate_limiter,       \* Monitor.rate_limiter
    now,                \* the monotonic clock
    pc,                 \* where each task stands
    cur,                \* the read loop's line handed to process_match
    msg,                \* each task's local msg
    ret,                \* where each task's send_to_sentry returns to
    sleepUntil,         \* the instant each task's sleep ends
    sink,               \* the messages captured by the sink, in order
    cutOf,              \* history: which cut each task's msg is
    readLog,            \* history: the lines read from the source
    accepted,           \* history: the lines that passed both detectors
    cuts,               \* history: the messages cut from the buffer
    allowLog,           \* history: the allow() calls of send_to_sentry
    rlLog,              \* history: the allow() calls on a stand-alone RateLimiter
    source,             \* Monitor.source: what it reads and how far the open reader is
    acceptedAt,         \* history: the instants of the acceptances (SpecIdle only)
    detectLog,          \* history: the detect() calls on a stand-alone DmesgDetector
    main,               \* main(): the monitors its start loop has gone through
    children,           \* the running child processes a process source has spawned
    syslog,             \* what SyslogSource::stream has set up: channels, tasks, reader
    srcLog,             \* history: the calls on a stand-alone LogSource
    reader,             \* a ChannelReader with its channel, and what it was sent and gave
    locks               \* the holders of the Mutexes of last_activity and rate_limiter

vars == <<cfg, detector, exclusion_detector, stop_on_eof, buffer, bufferLock,
          last_activity, rate_limiter, now, pc, cur, msg, ret, sleepUntil,
          sink, cutOf, readLog, accepted, cuts, allowLog, rlLog, source, acceptedAt,
          detectLog, main, children, syslog, srcLog, reader, locks>>

confVars == <<cfg, detector, exclusion_detector, stop_on_eof>>
histVars == <<readLog, accepted, cuts, allowLog, rlLog, acceptedAt, detectLog>>
\* main() and the insides of a LogSource, which the Monitor's steps do not touch.
outerVars == <<main, children, syslog, srcLog, reader>>
\* The same and the two locks, which are free between the steps that take them.
sideVars == <<outerVars, locks>>
\* The Monitor without its source.
monitorVars == <<confVars, buffer, bufferLock, last_activity, rate_limiter, now, pc, cur,
                 msg, ret, sleepUntil, sink, cutOf, histVars, locks>>

\* Monitor::new at instant 0 with one of the given argument lists on one of the given
\* sources, then Monitor::start up to the spawn of the timer task.  main() makes a
\* Monitor only with a detector get_detector has returned.
InitMonitor(cfgs, sources) ==
    /\ cfg \in cfgs
    /\ source \in sources
    /\ detector = GetDetector(cfg.format, cfg.pattern).val
    /\ exclusion_detector = NewExclusionDetector(cfg.exclude_pattern)
    /\ stop_on_eof = cfg.stop_on_eof
    /\ buffer = <<>>
    /\ bufferLock = "free"
    /\ locks = [last_activity |-> "free", rate_limiter |-> "free"]
    /\ last_activity = 0
    /\ rate_limiter = NewRateLimiter(NewBurst(cfg.rate_limit_burst),
                                     NewWindow(cfg.rate_limit_window), 0)
    /\ now = 0
    /\ pc = [t \in Tasks |-> IF t = "reader" THEN "connecting" ELSE "spawned"]
    /\ cur = None
    /\ msg = [t \in Tasks |-> None]
    /\ ret = [t \in Tasks |-> "none"]
    /\ sleepUntil = [t \in Tasks |-> 0]
    /\ sink = <<>>
    /\ cutOf = [t \in Tasks |-> 0]
    /\ readLog = <<>>
    /\ accepted = <<>>
    /\ cuts = <<>>
    /\ allowLog = <<>>
    /\ rlLog = <<>>
    /\ acceptedAt = <<>>
    /\ detectLog = <<>>

\* main() before its start loop.
NoMain == [monitors |-> <<>>, calls |-> <<>>, handles |-> <<>>, pc |-> "starting"]

\* No stream of a SyslogSource has been opened.
NoSyslog == [streams |-> <<>>, arrivals |-> 0, limit |-> MaxArrivals]
\* No ChannelReader on its own.
NoReader == [rx |-> [queue |-> <<>>, closed |-> TRUE], current_chunk |-> None,
             sent |-> <<>>, bytes |-> "", last |-> "none"]

\* A Monitor taken on its own.
InitOn(cfgs, sources) ==
    /\ InitMonitor(cfgs, sources)
    /\ main = NoMain
    /\ children = {}
    /\ syslog = NoSyslog
    /\ srcLog = <<>>
    /\ reader = NoReader

\* A Monitor on a source that can yield any line at any time.
InitWith(cfgs) == InitOn(cfgs, {AnySource})

\* allow() returns before it looks at the window when limit == 0, so an absent
\* burst and a burst of zero are drawn with one window each: the first with a
\* window configured, the second without.
Init ==
    InitWith({c \in [format : {"custom"}, pattern : Patterns,
                     exclude_pattern : ExcludePatterns, stop_on_eof : BOOLEAN,
                     rate_limit_burst : BurstConfigs, rate_limit_window : WindowConfigs] :
                 \/ c.rate_limit_burst = Some(1)
                 \/ c.rate_limit_window.some = ~c.rate_limit_burst.some})

\* Time passes.
Tick ==
    /\ now < MaxTime
    /\ now' = now + 1
    /\ UNCHANGED <<sideVars, confVars, source, buffer, bufferLock, last_activity, rate_limiter, pc, cur,
                   msg, ret, sleepUntil, sink, cutOf, histVars>>


(***************************************************************************)
(* Steps shared by the read loop and the flush timer.                      *)
(***************************************************************************)
\* Mutant of GuardDropped: the task keeps the guard after the statement.
GuardDropped_Kept(t) == t

\* The lock's holder once task t has dropped the MutexGuard, which lives to the end of
\* the statement or block that took it.
GuardDropped(t) == "free"

\* Mutant of BufferLockFree: the lock is granted whoever holds it.
BufferLockFree_Always == TRUE

\* Mutex::lock on the buffer returns only when no task holds it.
BufferLockFree == bufferLock = "free"

\* Mutant of SleepOf: the timer sleeps two intervals.
SleepOf_TwoIntervals(p) ==
    IF p = "sleeping" THEN 2 * FLUSH_INTERVAL
    ELSE IF p \in {"backoff", "restarting"} THEN DurationFromSecs(1)
    ELSE 0

\* The sleep a task starts when it arrives at p: the timer's interval, the 1 s backoffs.
SleepOf(p) ==
    IF p = "sleeping" THEN FLUSH_INTERVAL
    ELSE IF p \in {"backoff", "restarting"} THEN DurationFromSecs(1)
    ELSE 0

\* Task t goes on at p; if p is a sleep, the sleep starts now.
GoTo(t, p) ==
    /\ pc' = [pc EXCEPT ![t] = p]
    /\ sleepUntil' = [sleepUntil EXCEPT ![t] = IF SleepOf(p) > 0 THEN now + SleepOf(p) ELSE 0]

\* Task t, which holds the buffer lock, starts a flush: let msg = buffer.join("\n").
FlushJoin(t, after) ==
    /\ bufferLock' = t
    /\ msg' = [msg EXCEPT ![t] = Some(Join(buffer))]
    /\ ret' = [ret EXCEPT ![t] = after]
    /\ pc' = [pc EXCEPT ![t] = "clear"]
    /\ sleepUntil' = [sleepUntil EXCEPT ![t] = 0]

\* buffer.clear(); drop(buffer): the flush has cut msg from the buffer.
FlushClear(t) ==
    /\ pc[t] = "clear"
    /\ buffer' = <<>>
    /\ bufferLock' = "free"
    /\ cuts' = Append(cuts, [msg |-> msg[t].val, by |-> t, then |-> ret[t]])
    /\ cutOf' = [cutOf EXCEPT ![t] = Len(cuts) + 1]
    /\ pc' = [pc EXCEPT ![t] = "send_allow"]
    /\ UNCHANGED <<sideVars, confVars, source, last_activity, rate_limiter, now, cur, msg, ret,
                   sleepUntil, sink, readLog, accepted, allowLog, rlLog, acceptedAt, detectLog>>

\* send_to_sentry returns to its caller.
SendReturn(t) ==
    /\ GoTo(t, ret[t])
    /\ msg' = [msg EXCEPT ![t] = None]
    /\ ret' = [ret EXCEPT ![t] = "none"]
    /\ cutOf' = [cutOf EXCEPT ![t] = 0]

\* Mutant of Denied: a denial is ignored.
Denied_Never(a) == FALSE

\* if !limiter.allow()
Denied(a) == ~a.ok

\* Mutant of SendDenied: the task keeps the message and asks the limiter again.
SendDenied_Retry(t) == UNCHANGED <<pc, msg, ret, cutOf, sleepUntil>>

\* The denial branch of send_to_sentry: return, the message is gone with the call.
SendDenied(t) == SendReturn(t)

\* send_to_sentry: limiter.allow() under the limiter lock; a denial returns.
SendAllow(t) ==
    /\ pc[t] = "send_allow"
    /\ locks.rate_limiter = "free"
    /\ locks' = [locks EXCEPT !.rate_limiter = GuardDropped(t)]
    /\ LET a == Allow(rate_limiter, now)
       IN /\ rate_limiter' = a.rl
          /\ allowLog' = Append(allowLog, [ok |-> a.ok, cut |-> cutOf[t]])
          /\ IF Denied(a)
             THEN SendDenied(t)
             ELSE /\ pc' = [pc EXCEPT ![t] = "send_capture"]
                  /\ UNCHANGED <<msg, ret, cutOf, sleepUntil>>
    /\ UNCHANGED <<outerVars, confVars, source, buffer, bufferLock, last_activity, now, cur, sink,
                   readLog, accepted, cuts, rlLog, acceptedAt, detectLog>>

\* send_to_sentry: collector.get_state(), then sentry::capture_message(message).
SendCapture(t) ==
    /\ pc[t] = "send_capture"
    /\ sink' = Append(sink, [message |-> msg[t].val, cut |-> cutOf[t]])
    /\ SendReturn(t)
    /\ UNCHANGED <<sideVars, confVars, source, buffer, bufferLock, last_activity, rate_limiter, now, cur,
                   histVars>>

(***************************************************************************)
(* Monitor::start: the read loop.                                          *)
(***************************************************************************)
\* Mutant of Accepts: the exclusion detector is not asked.
Accepts_NoExclusion(line) == Detect(detector, line)

\* The line passes the primary detector and no exclusion detector drops it.
Accepts(line) ==
    /\ Detect(detector, line)
    /\ ~(exclusion_detector.some /\ Detect(exclusion_detector.val, line))

\* source.stream(): Ok gives a reader, Err sleeps 1 s and tries again.
Connect ==
    /\ pc["reader"] = "connecting"
    /\ \E ok \in BOOLEAN :
         /\ GoTo("reader", IF ok THEN "reading" ELSE "backoff")
         /\ source' = IF ok THEN Opened(source) ELSE source
    /\ UNCHANGED <<sideVars, confVars, buffer, bufferLock, last_activity, rate_limiter, now, cur,
                   msg, ret, sink, cutOf, histVars>>

\* The 1 s sleep after a failed open or after a stream's end is over.
Reconnect ==
    /\ pc["reader"] \in {"backoff", "restarting"}
    /\ now >= sleepUntil["reader"]
    /\ GoTo("reader", "connecting")
    /\ UNCHANGED <<sideVars, confVars, source, buffer, bufferLock, last_activity, rate_limiter, now, cur,
                   msg, ret, sink, cutOf, histVars>>

\* lines.next_line() gives Ok(Some(line)): the detectors decide; process_match starts
\* for a match with *last_activity.lock() = Instant::now().  The history of the
\* acceptance instants is kept only on demand.
Read(keepInstants) ==
    /\ pc["reader"] = "reading"
    /\ (source.kind = "file" \/ Len(readLog) < MaxLines)
    /\ \E line \in NextLines(source) :
         /\ source' = Advanced(source)
         /\ readLog' = Append(readLog, line)
         /\ detector' = Detected(detector, line)
         /\ IF Accepts(line)
            THEN /\ cur' = Some(line)
                 /\ accepted' = Append(accepted, line)
                 /\ acceptedAt' = IF keepInstants THEN Append(acceptedAt, now)
                                  ELSE acceptedAt
                 /\ locks.last_activity = "free"
                 /\ last_activity' = now
                 /\ locks' = [locks EXCEPT !.last_activity = GuardDropped("reader")]
                 /\ pc' = [pc EXCEPT !["reader"] = "push"]
            ELSE UNCHANGED <<cur, accepted, acceptedAt, last_activity, locks, pc>>
    /\ UNCHANGED <<outerVars, cfg, exclusion_detector, stop_on_eof, buffer, bufferLock,
                   rate_limiter, now, msg, ret, sleepUntil, sink, cutOf, cuts, allowLog, rlLog,
                   detectLog>>

ReadLine == Read(FALSE)

\* Mutant of BufferFull: the flush waits for one line more.
BufferFull_OffByOne(b) == Len(b) > MAX_BUFFER_SIZE

\* buffer.len() >= MAX_BUFFER_SIZE
BufferFull(b) == Len(b) >= MAX_BUFFER_SIZE

\* Mutant of PushLine: the line goes to the front of the buffer.
PushLine_Front(b, line) == <<line>> \o b

\* buffer.push(line)
PushLine(b, line) == Append(b, line)

\* process_match: lock the buffer, push the line; a full buffer is flushed under the same lock.
Push ==
    /\ pc["reader"] = "push"
    /\ BufferLockFree
    /\ buffer' = PushLine(buffer, cur.val)
    /\ cur' = None
    /\ IF BufferFull(buffer')
       THEN /\ bufferLock' = "reader"
            /\ msg' = [msg EXCEPT !["reader"] = Some(Join(buffer'))]
            /\ ret' = [ret EXCEPT !["reader"] = "reading"]
            /\ pc' = [pc EXCEPT !["reader"] = "clear"]
       ELSE /\ pc' = [pc EXCEPT !["reader"] = "reading"]
            /\ UNCHANGED <<bufferLock, msg, ret>>
    /\ UNCHANGED <<sideVars, confVars, source, last_activity, rate_limiter, now, sleepUntil, sink,
                   cutOf, histVars>>

\* Mutant of AfterFlush: the loop breaks whatever stop_on_eof says.
AfterFlush_AlwaysStops == "stopped"

\* Mutant of AfterFlush: the stream is opened again at once, without the 1 s sleep.
AfterFlush_Reconnects == IF stop_on_eof THEN "stopped" ELSE "connecting"

\* Mutant of AfterFlush: the loop never breaks.
AfterFlush_NeverStops == "restarting"

\* Where the read loop goes after force_flush: break, or sleep 1 s and open again.
AfterFlush == IF stop_on_eof THEN "stopped" ELSE "restarting"

\* What next_line() gives when it gives no line: Ok(None), or Err for a failed read or
\* a line that is not UTF-8.
ReadEnds == {"eof", "error"}

\* Mutant of Propagates: an Err of next_line() is returned from start() (next_line()?).
Propagates_Err(r) == r = "error"

\* while let Ok(Some(line)) = ...: whatever is not a line ends the loop, nothing is returned.
Propagates(r) == FALSE

\* next_line() gives r: the while loop ends and force_flush locks the buffer and flushes
\* it if it holds lines.
StreamEnd(r) ==
    /\ pc["reader"] = "reading"
    /\ (r = "eof" => AtEnd(source))
    /\ IF Propagates(r)
       THEN /\ GoTo("reader", "failed")
            /\ UNCHANGED <<bufferLock, msg, ret>>
       ELSE /\ BufferLockFree
            /\ IF Len(buffer) > 0
               THEN FlushJoin("reader", AfterFlush)
               ELSE /\ GoTo("reader", AfterFlush)
                    /\ UNCHANGED <<bufferLock, msg, ret>>

\* The stream of the current attempt is over, cleanly or not.
ForceFlush ==
    /\ \E r \in ReadEnds : StreamEnd(r)
    /\ UNCHANGED <<sideVars, confVars, source, buffer, last_activity, rate_limiter, now, cur, sink,
                   cutOf, histVars>>

(***************************************************************************)
(* Monitor::start: the flush timer task.                                   *)
(***************************************************************************)
\* The spawned task runs for the first time and starts its first sleep.
TimerStart ==
    /\ pc["timer"] = "spawned"
    /\ GoTo("timer", "sleeping")
    /\ UNCHANGED <<sideVars, confVars, source, buffer, bufferLock, last_activity, rate_limiter, now, cur,
                   msg, ret, sink, cutOf, histVars>>

\* Mutant of IdleTooShort: the idle check asks for 100 ms more than the interval.
IdleTooShort_Late(elapsed) == elapsed < FLUSH_INTERVAL + FLUSH_SLACK

\* Mutant of IdleTooShort: the idle check never lets the timer flush.
IdleTooShort_Always(elapsed) == TRUE

\* Mutant of IdleTooShort: the timer flushes on every wake-up.
IdleTooShort_Never(elapsed) == FALSE

\* if elapsed < FLUSH_INTERVAL - Duration::from_millis(100)
IdleTooShort(elapsed) == elapsed < FLUSH_INTERVAL - FLUSH_SLACK

\* sleep(FLUSH_INTERVAL) is over; the idle check continues if a line was accepted less
\* than FLUSH_INTERVAL - 100 ms ago.
TimerCheck ==
    /\ pc["timer"] = "sleeping"
    /\ now >= sleepUntil["timer"]
    /\ locks.last_activity = "free"
    /\ locks' = [locks EXCEPT !.last_activity = GuardDropped("timer")]
    /\ LET elapsed == now - last_activity
       IN IF IdleTooShort(elapsed)
          THEN GoTo("timer", "sleeping")
          ELSE GoTo("timer", "lock")
    /\ UNCHANGED <<outerVars, confVars, source, buffer, bufferLock, last_activity, rate_limiter, now, cur,
                   msg, ret, sink, cutOf, histVars>>

\* Lock the buffer; flush it if it holds lines, else sleep again.
TimerLock ==
    /\ pc["timer"] = "lock"
    /\ BufferLockFree
    /\ IF Len(buffer) > 0
       THEN FlushJoin("timer", "sleeping")
       ELSE /\ GoTo("timer", "sleeping")
            /\ UNCHANGED <<bufferLock, msg, ret>>
    /\ UNCHANGED <<sideVars, confVars, source, buffer, last_activity, rate_limiter, now, cur, sink,
                   cutOf, histVars>>

Next ==
    \/ Tick
    \/ Connect
    \/ Reconnect
    \/ ReadLine
    \/ Push
    \/ ForceFlush
    \/ TimerStart
    \/ TimerCheck
    \/ TimerLock
    \/ \E t \in Tasks : FlushClear(t)
    \/ \E t \in Tasks : SendAllow(t)
    \/ \E t \in Tasks : SendCapture(t)

Spec == Init /\ [][Next]_vars

(***************************************************************************)
(* A Monitor on a FileSource, limiter off, nothing excluded.               *)
(***************************************************************************)
InitFile ==
    InitOn([format : {"custom"}, pattern : Patterns, exclude_pattern : {Some("")},
            stop_on_eof : BOOLEAN, rate_limit_burst : {None}, rate_limit_window : {None}],
           {FileSource(content) : content \in Files})

SpecFile == InitFile /\ [][Next]_vars

(***************************************************************************)
(* A Monitor on a kernel log: the stateful correlator is the primary       *)
(* detector, with or without an exclusion pattern.                         *)
(***************************************************************************)
KernelLines ==
    {"[10.0] ata1: exception Emask", "[20.0] eth0: link down", "   continuation detail"}

InitKernel ==
    InitOn([format : {"dmesg"}, pattern : {""}, exclude_pattern : {Some(""), Some("Emask")},
            stop_on_eof : BOOLEAN, rate_limit_burst : {None}, rate_limit_window : {None}],
           {StreamSource(KernelLines)})

SpecKernel == InitKernel /\ [][Next]_vars

(***************************************************************************)
(* A RateLimiter on its own: allow() is called at any instant.             *)
(***************************************************************************)
InitRL ==
    InitWith([format : {"custom"}, pattern : Patterns, exclude_pattern : {Some("")},
              stop_on_eof : {FALSE}, rate_limit_burst : LimiterBursts, rate_limit_window : LimiterWindows])

\* One allow() call; the history keeps the instant, the answer and the limiter it leaves.
LimiterCall ==
    /\ Len(rlLog) < MaxCalls
    /\ LET a == Allow(rate_limiter, now)
       IN /\ rate_limiter' = a.rl
          /\ rlLog' = Append(rlLog, [at |-> now, ok |-> a.ok,
                                     start |-> a.rl.window_start, count |-> a.rl.count])
    /\ UNCHANGED <<sideVars, confVars, source, buffer, bufferLock, last_activity, now, pc, cur, msg, ret,
                   sleepUntil, sink, cutOf, readLog, accepted, cuts, allowLog, acceptedAt, detectLog>>

NextRL ==
    \/ Tick
    \/ LimiterCall

SpecRL == InitRL /\ [][NextRL]_vars

(***************************************************************************)
(* A DmesgDetector on its own: detect() is called on one line after        *)
(* another.                                                                *)
(***************************************************************************)
\* Kernel log lines: errors and others, with and without timestamp and header.
DmesgLines ==
    {"[10.0] ata1: exception Emask",
     "[10.2] ata1: more detail",
     "[ 12.5] ata1.00: status",
     "[20.0] eth0: link down",
     "[0.0] ata1: I/O error",
     "[0.0] ata1: link up",
     "[30.0] ata1: failed command",
     "[50.5] Kernel panic - not syncing",
     "Call Trace OOPS",
     "   continuation detail"}

InitDmesg ==
    InitWith([format : {"dmesg"}, pattern : {""}, exclude_pattern : {Some("")},
              stop_on_eof : {FALSE}, rate_limit_burst : {None},
              rate_limit_window : {None}])

\* One detect() call; the history keeps the line, the answer and the state before and
\* after the call.
DetectCall ==
    /\ Len(detectLog) < MaxDetects
    /\ \E line \in DmesgLines :
         LET r == DmesgDetect(detector, line)
         IN /\ detector' = r.d
            /\ detectLog' = Append(detectLog, [line |-> line, result |-> r.result,
                                                before |-> detector.state,
                                                after |-> r.d.state])
    /\ UNCHANGED <<sideVars, cfg, exclusion_detector, stop_on_eof, source, buffer, bufferLock,
                   last_activity, rate_limiter, now, pc, cur, msg, ret, sleepUntil, sink,
                   cutOf, readLog, accepted, cuts, allowLog, rlLog, acceptedAt>>

NextDmesg == DetectCall

SpecDmesg == InitDmesg /\ [][NextDmesg]_vars

(***************************************************************************)
(* A Monitor whose tasks are scheduled promptly: a task that can take a    *)
(* step takes it before the clock moves, so that a step costs no time and  *)
(* a sleep ends at its deadline.  Only the source is free to keep the read *)
(* loop waiting.  The limiter is off and nothing is excluded; the stream   *)
(* carries one line that matches and one that does not.                    *)
(***************************************************************************)
InitIdle ==
    InitOn([format : {"custom"}, pattern : Patterns, exclude_pattern : {Some("")},
            stop_on_eof : {FALSE}, rate_limit_burst : {None}, rate_limit_window : {None}],
           {StreamSource({"ok", "Error: timeout"})})

\* Task t is not waiting for the source or for a sleep to end.
Runnable(t) ==
    \/ pc[t] \in {"connecting", "push", "spawned", "lock", "clear", "send_allow",
                  "send_capture"}
    \/ pc[t] \in {"backoff", "restarting", "sleeping"} /\ now >= sleepUntil[t]

\* Time passes while every task waits.
TickIdle ==
    /\ now < MaxIdleTime
    /\ \A t \in Tasks : ~Runnable(t)
    /\ now' = now + 1
    /\ UNCHANGED <<sideVars, confVars, source, buffer, bufferLock, last_activity, rate_limiter, pc,
                   cur, msg, ret, sleepUntil, sink, cutOf, histVars>>

ReadLineAt == Read(TRUE)

NextIdle ==
    \/ TickIdle
    \/ Connect
    \/ Reconnect
    \/ ReadLineAt
    \/ Push
    \/ ForceFlush
    \/ TimerStart
    \/ TimerCheck
    \/ TimerLock
    \/ \E t \in Tasks : FlushClear(t)
    \/ \E t \in Tasks : SendAllow(t)
    \/ \E t \in Tasks : SendCapture(t)

SpecIdle == InitIdle /\ [][NextIdle]_vars

(***************************************************************************)
(* A Monitor that runs for ever, under fair scheduling.  The clock stops   *)
(* at MaxTime; from there on a tick moves every stored instant one tick    *)
(* back instead, which keeps every duration the code computes from them,   *)
(* up to MaxTime, beyond which no comparison of the code tells durations   *)
(* apart (the limiter is off).                                             *)
(***************************************************************************)
InitLive ==
    InitOn([format : {"custom"}, pattern : Patterns, exclude_pattern : {Some("")},
            stop_on_eof : BOOLEAN, rate_limit_burst : {None}, rate_limit_window : {None}],
           {StreamSource({"Error: timeout"})})

\* An instant, seen one tick later.
Back(instant) == IF instant > 0 THEN instant - 1 ELSE 0

\* Time passes.
TickLive ==
    /\ IF now < MaxTime
       THEN /\ now' = now + 1
            /\ UNCHANGED <<last_activity, sleepUntil, rate_limiter>>
       ELSE /\ now' = now
            /\ last_activity' = Back(last_activity)
            /\ sleepUntil' = [t \in Tasks |-> Back(sleepUntil[t])]
            /\ rate_limiter' =
                   [rate_limiter EXCEPT !.window_start = Back(rate_limiter.window_start)]
    /\ UNCHANGED <<sideVars, confVars, source, buffer, bufferLock, pc, cur, msg, ret, sink, cutOf,
                   histVars>>

\* The steps the read loop takes by itself, once the source or a sleep lets it go on.
ReaderStep ==
    \/ Connect
    \/ Reconnect
    \/ Push
    \/ FlushClear("reader")
    \/ SendAllow("reader")
    \/ SendCapture("reader")

\* The steps of the timer task.
TimerStep ==
    \/ TimerStart
    \/ TimerCheck
    \/ TimerLock
    \/ FlushClear("timer")
    \/ SendAllow("timer")
    \/ SendCapture("timer")

NextLive ==
    \/ TickLive
    \/ ReadLine
    \/ ForceFlush
    \/ ReaderStep
    \/ TimerStep

\* Time goes on and the runtime runs each task that can go on; the source owes nothing.
Fairness ==
    /\ WF_vars(TickLive)
    /\ WF_vars(ReaderStep)
    /\ WF_vars(TimerStep)

SpecLive == InitLive /\ [][NextLive]_vars /\ Fairness

(***************************************************************************)
(* main(): the loop that starts the configured monitors (main.rs).  The    *)
(* configuration is an input: each turn of the loop takes one more         *)
(* MonitorConfig.  main.monitors lists the configurations gone through,    *)
(* main.handles the Monitors spawned, main.calls the get_detector calls.   *)
(***************************************************************************)
\* MonitorConfig values.  A configuration that is skipped for its source has the
\* default pattern.
MonitorConfigs ==
    {c \in [monitor_type : {"file", "dmesg", "tape"}, path : {"", "app.log"}, args : {""},
            pattern : {"", "Error", "(error"}, format : {"", "nginx", "dmesg"},
            exclude_pattern : {"", "disk full", "("}] :
        /\ c.monitor_type # "file" => c.path = ""
        /\ (c.monitor_type = "tape" \/ (c.monitor_type = "file" /\ c.path = ""))
               => (c.pattern = "Error" /\ c.format = "" /\ c.exclude_pattern = "")}

\* The source main() makes for a configuration, None where it skips the monitor.
NewSource(mon_cfg) ==
    IF mon_cfg.monitor_type = "file"
    THEN (IF mon_cfg.path = "" THEN None ELSE Some("file"))
    ELSE IF mon_cfg.monitor_type \in {"journalctl", "dmesg", "syslog"}
    THEN Some(mon_cfg.monitor_type)
    ELSE IF mon_cfg.monitor_type = "command"
    THEN (IF Trim(mon_cfg.args) = "" THEN None ELSE Some("command"))
    ELSE None

\* determine_detector_format
DetermineDetectorFormat(mon_cfg) ==
    IF mon_cfg.format # "" THEN mon_cfg.format
    ELSE IF mon_cfg.pattern # "" THEN "custom"
    ELSE IF mon_cfg.monitor_type = "dmesg" THEN "dmesg"
    ELSE "custom"

InitMain ==
    /\ InitMonitor([format : {"custom"}, pattern : Patterns, exclude_pattern : {Some("")},
                    stop_on_eof : {FALSE}, rate_limit_burst : {None},
                    rate_limit_window : {None}], {AnySource})
    /\ main = NoMain
    /\ children = {}
    /\ syslog = NoSyslog
    /\ srcLog = <<>>
    /\ reader = NoReader

\* One turn of the loop over cfg.monitors: the source, the detector, Monitor::new and
\* the spawn of the task that runs the Monitor; a continue leaves no handle.
StartMonitor(mon_cfg) ==
    LET at == Len(main.monitors) + 1
        src == NewSource(mon_cfg)
        detector_format == DetermineDetectorFormat(mon_cfg)
        got == GetDetector(detector_format, mon_cfg.pattern)
    IN main' = [main EXCEPT
           !.monitors = Append(@, mon_cfg),
           !.calls = IF src.some
                     THEN Append(@, [at |-> at, format |-> detector_format,
                                     pattern |-> mon_cfg.pattern, result |-> got])
                     ELSE @,
           !.handles = IF src.some /\ got.ok
                       THEN Append(@, [at |-> at, source |-> src.val,
                                       detector |-> got.val,
                                       exclusion_detector |->
                                           NewExclusionDetector(
                                               Some(mon_cfg.exclude_pattern))])
                       ELSE @]

\* The loop over cfg.monitors, the configuration being an input.
MainStart ==
    /\ main.pc = "starting"
    /\ Len(main.monitors) < MaxMonitors
    /\ \E mon_cfg \in MonitorConfigs : StartMonitor(mon_cfg)
    /\ UNCHANGED <<monitorVars, source, children, syslog, srcLog, reader>>

\* The end of the loop: main() fails when no monitor is configured or none was
\* started, and waits for the Monitors' tasks otherwise.
MainWait ==
    /\ main.pc = "starting"
    /\ main' = [main EXCEPT !.pc = IF main.handles = <<>> THEN "failed" ELSE "waiting"]
    /\ UNCHANGED <<monitorVars, source, children, syslog, srcLog, reader>>

NextMain ==
    \/ MainStart
    \/ MainWait

SpecMain == InitMain /\ [][NextMain]_vars

(***************************************************************************)
(* main() from the command line (config/mod.rs, main.rs): Config::load     *)
(* parses the arguments and builds the one monitor of the command-line     *)
(* mode, which the start loop then goes through.  The command lines are    *)
(* those without --config, --journalctl, --command, --syslog, --status and *)
(* --update; an option the user leaves out is None.                        *)
(***************************************************************************)
CommandLines ==
    [dmesg : BOOLEAN, file : {None, Some("app.log")},
     format : {None, Some("nginx"), Some("dmesg")},
     pattern : {None, Some(""), Some("(error")},
     exclude : {None, Some("disk full")}, dsn : {None, Some("dsn")}]

\* Option::unwrap_or_default on an Option<String>
UnwrapOrDefault(opt) == IF opt.some THEN opt.val ELSE ""

\* Args::parse: --pattern has the default value "Error", the other options are kept.
ArgsParse(cli) ==
    [cli EXCEPT !.pattern = IF cli.pattern.some THEN cli.pattern.val ELSE "Error"]

\* Config::from_args without --config: the monitors of the command-line mode, and
\* the two checks that end it.
FromArgs(args) ==
    LET format_arg == UnwrapOrDefault(args.format)
        monitors ==
            IF args.dmesg
            THEN <<[monitor_type |-> "dmesg", path |-> "", args |-> "",
                    pattern |-> args.pattern,
                    format |-> IF format_arg = "" THEN "dmesg" ELSE format_arg,
                    exclude_pattern |-> UnwrapOrDefault(args.exclude)]>>
            ELSE IF args.file.some
            THEN <<[monitor_type |-> "file", path |-> args.file.val, args |-> "",
                    pattern |-> args.pattern, format |-> format_arg,
                    exclude_pattern |-> UnwrapOrDefault(args.exclude)]>>
            ELSE <<>>
    IN IF UnwrapOrDefault(args.dsn) = "" THEN Err("Sentry DSN is required")
       ELSE IF monitors = <<>> THEN Err("No monitors configured")
       ELSE Ok([monitors |-> monitors])

\* The process at its start: the command line is given, nothing is loaded.
InitCli ==
    /\ InitMonitor([format : {"custom"}, pattern : Patterns, exclude_pattern : {Some("")},
                    stop_on_eof : {FALSE}, rate_limit_burst : {None},
                    rate_limit_window : {None}], {AnySource})
    /\ main \in {[monitors |-> <<>>, calls |-> <<>>, handles |-> <<>>, pc |-> "loading",
                  cli |-> cli, cfg |-> None] : cli \in CommandLines}
    /\ children = {}
    /\ syslog = NoSyslog
    /\ srcLog = <<>>
    /\ reader = NoReader

\* Config::load; main() returns its error.
CliLoad ==
    /\ main.pc = "loading"
    /\ LET loaded == FromArgs(ArgsParse(main.cli))
       IN main' = [main EXCEPT !.cfg = IF loaded.ok THEN Some(loaded.val) ELSE None,
                               !.pc = IF loaded.ok THEN "starting" ELSE "failed"]
    /\ UNCHANGED <<monitorVars, source, children, syslog, srcLog, reader>>

\* The loop over cfg.monitors, the configuration being the one loaded.
CliStart ==
    /\ main.pc = "starting"
    /\ Len(main.monitors) < Len(main.cfg.val.monitors)
    /\ StartMonitor(main.cfg.val.monitors[Len(main.monitors) + 1])
    /\ UNCHANGED <<monitorVars, source, children, syslog, srcLog, reader>>

\* The end of the loop over the loaded configuration.
CliWait ==
    /\ main.pc = "starting"
    /\ Len(main.monitors) = Len(main.cfg.val.monitors)
    /\ main' = [main EXCEPT !.pc = IF main.handles = <<>> THEN "failed" ELSE "waiting"]
    /\ UNCHANGED <<monitorVars, source, children, syslog, srcLog, reader>>

NextCli ==
    \/ CliLoad
    \/ CliStart
    \/ CliWait

SpecCli == InitCli /\ [][NextCli]_vars

(***************************************************************************)
(* A LogSource on its own (sources/*.rs): stream() and close() are called  *)
(* in any order.  children are the running child processes the source has  *)
(* spawned; syslog.streams holds, for each stream() call on a              *)
(* SyslogSource, the shutdown broadcast, the message channel and the tasks *)
(* spawned.                                                                *)
(***************************************************************************)
\* The process variant that runs a user command: it spawns and kills its child as the
\* other two do.
CommandKind == "command"

\* DmesgSource::new, JournalctlSource::new, CommandSource::new
ProcessKinds == {"dmesg", "journalctl", CommandKind}
ProcessSource(kind) == [kind |-> kind, process |-> None]

\* SyslogSource::new
SyslogSource(address) == [kind |-> "syslog", address |-> address, close_tx |-> None]

\* Locators of a SyslogSource.
Addresses == {"tcp:ip", "udp:ip", "ip"}

\* The transport SyslogSource::stream reads off the address: UDP unless tagged tcp.
Protocol(address) == IF StartsWith(address, "tcp:") THEN "tcp" ELSE "udp"

LogSources ==
    {FileSource(<<"ok">>)}
        \cup {ProcessSource(kind) : kind \in ProcessKinds}
        \cup {SyslogSource(address) : address \in Addresses}

\* What arrives in a datagram, and what read_until gives on a connection: with the
\* newline, or without it at the end of the connection.
Datagrams == {"", "a", "b\n"}
TcpLines == {"a\n", "b"}

\* Mutant of EnsureNewline: the data is sent as it came.
EnsureNewline_AsIs(data) == data

\* A newline is pushed when the data does not end with one.
EnsureNewline(data) ==
    IF Len(data) > 0 /\ Char(data, Len(data)) = "\n" THEN data ELSE data \o "\n"

\* A task SyslogSource spawns; late counts the I/O operations it has completed after a
\* shutdown was broadcast.
NewTask(role, at) == [role |-> role, pc |-> at, data |-> "", late |-> 0]

\* What one stream() call of a SyslogSource sets up.
NewStream(protocol) ==
    [bcast |-> [senders |-> TRUE, queued |-> FALSE],
     chan |-> <<>>,
     rx |-> TRUE,
     shut |-> FALSE,
     tasks |-> <<NewTask(protocol, "bind")>>]

\* close_rx.recv() is ready: a shutdown is queued, or every sender is gone.
ShutdownReady(st) == st.bcast.queued \/ ~st.bcast.senders

\* The task has completed an I/O operation.
AfterIo(st, task) == IF st.shut /\ task.late < 2 THEN task.late + 1 ELSE task.late

InitSource ==
    /\ InitMonitor([format : {"custom"}, pattern : Patterns, exclude_pattern : {Some("")},
                    stop_on_eof : {FALSE}, rate_limit_burst : {None},
                    rate_limit_window : {None}], LogSources)
    /\ main = NoMain
    /\ children = {}
    /\ syslog = NoSyslog
    /\ srcLog = <<>>
    /\ reader = NoReader

\* The stream() calls made so far.
StreamCalls == {i \in DOMAIN srcLog : srcLog[i].op = "stream"}

\* LogSource::stream.  A file is opened; a process variant spawns a child and keeps
\* it in self.process; a SyslogSource makes the two channels, keeps the shutdown
\* sender in self.close_tx and spawns the listener.
SourceStream ==
    /\ Len(srcLog) < MaxSrcCalls
    /\ \E ok \in BOOLEAN :
         /\ source.kind = "syslog" => ok
         /\ srcLog' = Append(srcLog, [op |-> "stream", ok |-> ok])
         /\ IF ~ok THEN UNCHANGED <<source, children, syslog>>
            ELSE IF source.kind = "file"
            THEN source' = Opened(source) /\ UNCHANGED <<children, syslog>>
            ELSE IF source.kind \in ProcessKinds
            THEN LET child == Cardinality(StreamCalls) + 1
                 IN /\ source' = [source EXCEPT !.process = Some(child)]
                    /\ children' = children \cup {child}
                    /\ UNCHANGED syslog
            ELSE LET g == Len(syslog.streams) + 1
                     old == [i \in DOMAIN syslog.streams |->
                                IF source.close_tx = Some(i)
                                THEN [syslog.streams[i] EXCEPT !.bcast.senders = FALSE]
                                ELSE syslog.streams[i]]
                 IN /\ source' = [source EXCEPT !.close_tx = Some(g)]
                    /\ syslog' = [syslog EXCEPT
                           !.streams = Append(old, NewStream(Protocol(source.address)))]
                    /\ UNCHANGED children
    /\ UNCHANGED <<monitorVars, main, reader>>

\* Mutant of KillChild: the child is left running.
KillChild_Spares(running, child) == running

\* Child::kill
KillChild(running, child) == running \ {child}

\* close_tx.send(()): the shutdown is queued for the receivers there are.
Broadcast(st) ==
    [st EXCEPT !.shut = TRUE,
               !.bcast.queued = @ \/ \E k \in DOMAIN st.tasks :
                                        /\ st.tasks[k].role \in {"udp", "tcp"}
                                        /\ st.tasks[k].pc # "done"]

\* LogSource::close.  A file has nothing to close; a process variant takes
\* self.process and kills the child; a SyslogSource sends on self.close_tx, which it
\* keeps.
SourceClose ==
    /\ Len(srcLog) < MaxSrcCalls
    /\ srcLog' = Append(srcLog, [op |-> "close", ok |-> TRUE])
    /\ IF source.kind \in ProcessKinds /\ source.process.some
       THEN /\ source' = [source EXCEPT !.process = None]
            /\ children' = KillChild(children, source.process.val)
            /\ UNCHANGED syslog
       ELSE IF source.kind = "syslog" /\ source.close_tx.some
       THEN /\ syslog' = [syslog EXCEPT !.streams[source.close_tx.val] = Broadcast(@)]
            /\ UNCHANGED <<source, children>>
       ELSE UNCHANGED <<source, children, syslog>>
    /\ UNCHANGED <<monitorVars, main, reader>>

\* A child process ends by itself.
ChildExit ==
    /\ \E child \in children : children' = children \ {child}
    /\ UNCHANGED <<monitorVars, source, main, syslog, srcLog, reader>>

\* The steps of the tasks change syslog only.
SyslogStep(next) ==
    /\ syslog' = next
    /\ UNCHANGED <<monitorVars, source, main, children, srcLog, reader>>

\* The listener of some stream holds the socket bound to the source's address.
AddressInUse ==
    \E g \in DOMAIN syslog.streams : syslog.streams[g].tasks[1].pc \in {"select", "send"}

\* start_udp, start_tcp: the bind, which can fail and end the task; it fails while
\* the listener of an earlier stream holds the address.
ListenerBind ==
    \E g \in DOMAIN syslog.streams : \E ok \in BOOLEAN :
        /\ syslog.streams[g].tasks[1].pc = "bind"
        /\ ok => ~AddressInUse
        /\ SyslogStep([syslog EXCEPT
               !.streams[g].tasks[1].pc = IF ok THEN "select" ELSE "done"])

\* select!: the branch of close_rx.recv() is taken, the loop breaks.
ListenerShutdown ==
    \E g \in DOMAIN syslog.streams :
        /\ syslog.streams[g].tasks[1].pc = "select"
        /\ ShutdownReady(syslog.streams[g])
        /\ SyslogStep([syslog EXCEPT !.streams[g].tasks[1].pc = "done",
                                     !.streams[g].bcast.queued = FALSE])

\* select!: the branch of socket.recv_from is taken; an empty datagram is not sent on.
UdpReceive ==
    \E g \in DOMAIN syslog.streams : \E datagram \in Datagrams :
        LET st == syslog.streams[g]
            task == st.tasks[1]
        IN /\ task.role = "udp" /\ task.pc = "select"
           /\ syslog.arrivals < syslog.limit
           /\ SyslogStep([syslog EXCEPT
                  !.arrivals = @ + 1,
                  !.streams[g].tasks[1] =
                      IF Len(datagram) > 0
                      THEN [task EXCEPT !.pc = "send", !.data = EnsureNewline(datagram),
                                        !.late = AfterIo(st, task)]
                      ELSE [task EXCEPT !.late = AfterIo(st, task)]])

\* select!: the branch of listener.accept is taken; a task is spawned for the
\* connection with a clone of the channel's sender.
TcpAccept ==
    \E g \in DOMAIN syslog.streams :
        LET st == syslog.streams[g]
            task == st.tasks[1]
        IN /\ task.role = "tcp" /\ task.pc = "select"
           /\ syslog.arrivals < syslog.limit
           /\ SyslogStep([syslog EXCEPT
                  !.arrivals = @ + 1,
                  !.streams[g].tasks =
                      Append([st.tasks EXCEPT ![1].late = AfterIo(st, task)],
                             NewTask("conn", "read"))])

\* The task of a connection: read_until gives a line, the end of the connection or
\* an error.
ConnRead ==
    \E g \in DOMAIN syslog.streams : \E k \in DOMAIN syslog.streams[g].tasks :
        LET st == syslog.streams[g]
            task == st.tasks[k]
        IN /\ task.role = "conn" /\ task.pc = "read"
           /\ \/ SyslogStep([syslog EXCEPT !.streams[g].tasks[k].pc = "done"])
              \/ /\ syslog.arrivals < syslog.limit
                 /\ \E line \in TcpLines :
                      SyslogStep([syslog EXCEPT
                          !.arrivals = @ + 1,
                          !.streams[g].tasks[k] =
                              [task EXCEPT !.pc = "send", !.data = EnsureNewline(line),
                                           !.late = AfterIo(st, task)]])

\* Mutant of HasRoom: the channel takes a message however many it holds.
HasRoom_Always(chan) == TRUE

\* mpsc::channel(100): a send goes through when fewer messages than the capacity are
\* queued.
HasRoom(chan) == Len(chan) < CHANNEL_CAPACITY

\* tx.send(data).await: an error ends the task when the receiver is gone; the task
\* waits while the channel is full.
TaskSend ==
    \E g \in DOMAIN syslog.streams : \E k \in DOMAIN syslog.streams[g].tasks :
        LET st == syslog.streams[g]
            task == st.tasks[k]
        IN /\ task.pc = "send"
           /\ IF ~st.rx
              THEN SyslogStep([syslog EXCEPT
                       !.streams[g].tasks[k] = [task EXCEPT !.pc = "done", !.data = ""]])
              ELSE /\ HasRoom(st.chan)
                   /\ SyslogStep([syslog EXCEPT
                          !.streams[g].chan = Append(@, task.data),
                          !.streams[g].tasks[k] =
                              [task EXCEPT !.pc = IF task.role = "conn" THEN "read"
                                                  ELSE "select",
                                           !.data = ""]])

\* The reader takes the next message off the channel.
ReaderRecv ==
    \E g \in DOMAIN syslog.streams :
        /\ syslog.streams[g].rx
        /\ syslog.streams[g].chan # <<>>
        /\ SyslogStep([syslog EXCEPT !.streams[g].chan = Tail(@)])

\* The reader stream() returned is dropped, and the channel's receiver with it.
ReaderDrop ==
    \E g \in DOMAIN syslog.streams :
        /\ syslog.streams[g].rx
        /\ SyslogStep([syslog EXCEPT !.streams[g].rx = FALSE, !.streams[g].chan = <<>>])

NextSource ==
    \/ SourceStream
    \/ SourceClose
    \/ ChildExit
    \/ ListenerBind
    \/ ListenerShutdown
    \/ UdpReceive
    \/ TcpAccept
    \/ ConnRead
    \/ TaskSend
    \/ ReaderRecv
    \/ ReaderDrop

SpecSource == InitSource /\ [][NextSource]_vars

(***************************************************************************)
(* A SyslogSource as the program drives it: Monitor::start calls stream()  *)
(* when the reader of the stream before is dropped, and main() calls       *)
(* close() once, after start() has returned; no call follows the close().  *)
(***************************************************************************)
InitSyslog ==
    /\ InitMonitor([format : {"custom"}, pattern : Patterns, exclude_pattern : {Some("")},
                    stop_on_eof : {FALSE}, rate_limit_burst : {None},
                    rate_limit_window : {None}],
                   {SyslogSource(address) : address \in Addresses})
    /\ main = NoMain
    /\ children = {}
    /\ syslog = [NoSyslog EXCEPT !.limit = MaxSyslogArrivals]
    /\ srcLog = <<>>
    /\ reader = NoReader

\* No reader of an earlier stream is held.
ReadersDropped == \A g \in DOMAIN syslog.streams : ~syslog.streams[g].rx

\* close() has not been called.
NotClosed == \A i \in DOMAIN srcLog : srcLog[i].op # "close"

\* Monitor::start: self.source.stream() at the top of the loop.
MonitorStream == ReadersDropped /\ NotClosed /\ SourceStream

\* main(): monitor.close() after monitor.start() has returned.
MonitorClose == ReadersDropped /\ NotClosed /\ SourceClose

NextSyslog ==
    \/ MonitorStream
    \/ MonitorClose
    \/ ListenerBind
    \/ ListenerShutdown
    \/ UdpReceive
    \/ TcpAccept
    \/ ConnRead
    \/ TaskSend
    \/ ReaderRecv
    \/ ReaderDrop

SpecSyslog == InitSyslog /\ [][NextSyslog]_vars

(***************************************************************************)
(* The ChannelReader of sources/syslog.rs on its own: messages are sent on *)
(* its channel, the senders are dropped, and poll_read is called with a    *)
(* buffer that has room for n bytes.  reader.sent and reader.bytes are the *)
(* history of what was sent and of what poll_read has put in the buffers;  *)
(* reader.last is what the last poll_read returned.                        *)
(***************************************************************************)
\* The messages sent: the empty one too.
Messages == {"", "a\n", "bc\n"}

\* ChannelReader { rx, current_chunk: None } on an open, empty channel.
NewReader == [rx |-> [queue |-> <<>>, closed |-> FALSE], current_chunk |-> None,
              sent |-> <<>>, bytes |-> "", last |-> "none"]

Min(a, b) == IF a <= b THEN a ELSE b

\* Mutant of PollRead: the next message is taken as soon as one is queued, whatever
\* is left of the current one.
RECURSIVE PollRead_NextFirst(_, _)
PollRead_NextFirst(r, n) ==
    IF r.rx.queue # <<>>
    THEN PollRead_NextFirst(
             [r EXCEPT !.current_chunk = Some([inner |-> Head(r.rx.queue), pos |-> 0]),
                       !.rx.queue = Tail(@)], n)
    ELSE IF r.current_chunk.some /\ Len(r.current_chunk.val.inner) > r.current_chunk.val.pos
    THEN LET cursor == r.current_chunk.val
             to_read == Min(Len(cursor.inner) - cursor.pos, n)
         IN [r EXCEPT !.current_chunk = Some([cursor EXCEPT !.pos = @ + to_read]),
                      !.bytes = @ \o SubSeq(cursor.inner, cursor.pos + 1,
                                            cursor.pos + to_read),
                      !.last = "data"]
    ELSE [r EXCEPT !.current_chunk = None,
                   !.last = IF r.rx.closed THEN "eof" ELSE "pending"]

\* ChannelReader::poll_read with room for n bytes: the loop copies from the current
\* chunk if bytes remain, else drops it and polls the channel: a message becomes the
\* current chunk and the loop goes round, a closed and empty channel is the end of the
\* stream, an open and empty one is Pending.
RECURSIVE PollRead(_, _)
PollRead(r, n) ==
    IF r.current_chunk.some /\ Len(r.current_chunk.val.inner) > r.current_chunk.val.pos
    THEN LET cursor == r.current_chunk.val
             to_read == Min(Len(cursor.inner) - cursor.pos, n)
         IN [r EXCEPT !.current_chunk = Some([cursor EXCEPT !.pos = @ + to_read]),
                      !.bytes = @ \o SubSeq(cursor.inner, cursor.pos + 1,
                                            cursor.pos + to_read),
                      !.last = "data"]
    ELSE IF r.rx.queue # <<>>
    THEN PollRead([r EXCEPT !.current_chunk = Some([inner |-> Head(r.rx.queue), pos |-> 0]),
                            !.rx.queue = Tail(@)], n)
    ELSE [r EXCEPT !.current_chunk = None,
                   !.last = IF r.rx.closed THEN "eof" ELSE "pending"]

InitChannel ==
    /\ InitMonitor([format : {"custom"}, pattern : Patterns, exclude_pattern : {Some("")},
                    stop_on_eof : {FALSE}, rate_limit_burst : {None},
                    rate_limit_window : {None}], {SyslogSource("ip")})
    /\ main = NoMain
    /\ children = {}
    /\ syslog = NoSyslog
    /\ srcLog = <<>>
    /\ reader = NewReader

\* The steps of the channel and its reader change reader only.
ChannelStep(next) ==
    /\ reader' = next
    /\ UNCHANGED <<monitorVars, source, main, children, syslog, srcLog>>

\* tx.send(data): the message is queued if the channel has room.
ChanSend ==
    \E data \in Messages :
        /\ ~reader.rx.closed
        /\ Len(reader.sent) < MaxMsgs
        /\ Len(reader.rx.queue) < CHANNEL_CAPACITY
        /\ ChannelStep([reader EXCEPT !.rx.queue = Append(@, data),
                                      !.sent = Append(@, data)])

\* Every sender is dropped: the channel is closed, what is queued stays.
ChanClose ==
    /\ ~reader.rx.closed
    /\ ChannelStep([reader EXCEPT !.rx.closed = TRUE])

\* poll_read is called.
ChanPollRead ==
    /\ \E n \in 1..MaxBuf : reader' = PollRead(reader, n)
    /\ UNCHANGED <<monitorVars, source, main, children, syslog, srcLog>>

NextChannel ==
    \/ ChanSend
    \/ ChanClose
    \/ ChanPollRead

SpecChannel == InitChannel /\ [][NextChannel]_vars

(***************************************************************************)
(* Helpers of the properties.                                              *)
(***************************************************************************)
\* The lines of a message: str::split('\n').
RECURSIVE SplitLines(_)
SplitLines(s) ==
    IF \E i \in 1..Len(s) : SubSeq(s, i, i) = "\n"
    THEN LET i == CHOOSE k \in 1..Len(s) :
                      /\ SubSeq(s, k, k) = "\n"
                      /\ \A j \in 1..(k - 1) : SubSeq(s, j, j) # "\n"
         IN <<SubSeq(s, 1, i - 1)>> \o SplitLines(SubSeq(s, i + 1, Len(s)))
    ELSE <<s>>

\* The lines of the first n flush messages, in the order the messages were cut.
RECURSIVE FlushedLines(_)
FlushedLines(n) ==
    IF n = 0 THEN <<>> ELSE FlushedLines(n - 1) \o SplitLines(cuts[n].msg)

\* The elements of a sequence.
Range(seq) == {seq[i] : i \in DOMAIN seq}

\* The line the read loop has accepted and not pushed yet.
Pending == IF cur.some THEN <<cur.val>> ELSE <<>>

\* The allow() calls of send_to_sentry that returned true.
AllowedCalls == {i \in DOMAIN allowLog : allowLog[i].ok}
DeniedCalls == {i \in DOMAIN allowLog : ~allowLog[i].ok}

\* The allow() calls on the stand-alone limiter that returned true.
RLAllowed == {i \in DOMAIN rlLog : rlLog[i].ok}

\* The window start before call i of the stand-alone limiter.
StartBefore(i) == IF i = 1 THEN 0 ELSE rlLog[i - 1].start

\* rate_limit_window is absent or is not "<n>s" or "<n>m".
NoWindowConfigured ==
    \/ ~cfg.rate_limit_window.some
    \/ cfg.rate_limit_window.val \in {"xs", "3", "s"}

(***************************************************************************)
(* C1: every accepted line is in exactly one place: the lines of the flush *)
(* messages cut so far, in cut order, followed by the lines the buffer     *)
(* holds and the line about to be pushed, are exactly the accepted lines   *)
(* in acceptance order; no interleaving of the read loop and the timer     *)
(* task loses a line or puts it into two messages.                         *)
(***************************************************************************)
C1_ExactlyOneFlush == accepted = FlushedLines(Len(cuts)) \o buffer \o Pending

\* The timer task and the read loop have both cut a message.
C1_Witness ==
    /\ \E i \in DOMAIN cuts : cuts[i].by = "timer"
    /\ \E i \in DOMAIN cuts : cuts[i].by = "reader"
    /\ Len(accepted) = MaxLines
    /\ buffer = <<>>

(***************************************************************************)
(* C2: the buffer never holds more than MAX_BUFFER_SIZE lines, and it      *)
(* holds that many only while the size-triggered flush has it locked.      *)
(***************************************************************************)
C2_BufferBounded ==
    /\ Len(buffer) <= MAX_BUFFER_SIZE
    /\ bufferLock = "free" => Len(buffer) < MAX_BUFFER_SIZE

\* The buffer holds MAX_BUFFER_SIZE lines: the size-triggered flush is under way.
C2_Witness == Len(buffer) = MAX_BUFFER_SIZE

(***************************************************************************)
(* C3: the sink receives a message only after the allow() call of that     *)
(* message's flush returned true; the deliveries never outnumber the       *)
(* allow() calls that returned true.                                       *)
(***************************************************************************)
C3_DeliveryGated ==
    /\ Len(sink) <= Cardinality(AllowedCalls)
    /\ \A i \in DOMAIN sink : \E j \in AllowedCalls : allowLog[j].cut = sink[i].cut

\* A timer flush and a read-loop flush were delivered and another flush was denied.
C3_Witness ==
    /\ \E i \in DOMAIN sink : cuts[sink[i].cut].by = "timer"
    /\ \E i \in DOMAIN sink : cuts[sink[i].cut].by = "reader"
    /\ DeniedCalls # {}

(***************************************************************************)
(* C4: with burst N > 0, at most N allow() calls return true in the window *)
(* of length W that begins at any window start.                            *)
(***************************************************************************)
C4_AtMostBurstPerWindow ==
    rate_limiter.limit > 0 =>
        /\ rate_limiter.count <= rate_limiter.limit
        /\ \A s \in {0} \cup {rlLog[i].start : i \in DOMAIN rlLog} :
               Cardinality({i \in RLAllowed :
                               s <= rlLog[i].at /\ rlLog[i].at <= s + rate_limiter.window})
                   <= rate_limiter.limit

\* A window was used up (a call denied) and a later window allowed calls again.
C4_Witness ==
    /\ rate_limiter.limit > 0
    /\ rate_limiter.window > 0
    /\ \E i, j \in DOMAIN rlLog : i < j /\ ~rlLog[i].ok /\ rlLog[j].ok

(***************************************************************************)
(* C5: with burst N > 0 and window W > 0, a call made more than W after    *)
(* the window start makes that call's instant the window start, counts     *)
(* from zero and is allowed; in every window a call is allowed exactly     *)
(* while fewer than N calls of that window have been allowed.              *)
(***************************************************************************)
C5_ResetAfterWindow ==
    (rate_limiter.limit > 0 /\ rate_limiter.window > 0) =>
        \A i \in DOMAIN rlLog :
            /\ rlLog[i].at - StartBefore(i) > rate_limiter.window =>
                   /\ rlLog[i].start = rlLog[i].at
                   /\ rlLog[i].count = 1
                   /\ rlLog[i].ok
            /\ rlLog[i].ok <=>
                   Cardinality({j \in RLAllowed : j < i /\ rlLog[j].start = rlLog[i].start})
                       < rate_limiter.limit

\* After a full window a call reset it, N calls were allowed and the next was denied.
C5_Witness ==
    /\ rate_limiter.limit = 2
    /\ rate_limiter.window > 0
    /\ \E i \in DOMAIN rlLog :
           /\ i > 1
           /\ ~rlLog[i - 1].ok
           /\ rlLog[i].at - StartBefore(i) > rate_limiter.window
           /\ i + 2 <= Len(rlLog)
           /\ rlLog[i + 1].ok
           /\ ~rlLog[i + 2].ok

(***************************************************************************)
(* C6, as claimed: with burst N > 0 and a zero window the window is never  *)
(* reset and at most N calls return true over the limiter's lifetime.      *)
(***************************************************************************)
C6_ZeroWindowCapsLifetime ==
    (NoWindowConfigured /\ rate_limiter.limit > 0) =>
        /\ rate_limiter.window_start = 0
        /\ Cardinality(RLAllowed) <= rate_limiter.limit

(***************************************************************************)
(* C6, amended: an absent or unparseable rate_limit_window gives a zero    *)
(* window; with burst N > 0 every call made at an instant later than the   *)
(* window start resets the window to that instant and is allowed, so only  *)
(* calls at one and the same instant share a window: at most N calls       *)
(* return true per instant, and a denied call is at the window start.      *)
(***************************************************************************)
C6_ZeroWindowResetsEveryInstant ==
    /\ NoWindowConfigured => rate_limiter.window = 0
    /\ (rate_limiter.window = 0 /\ rate_limiter.limit > 0) =>
        /\ \A i \in DOMAIN rlLog :
               /\ rlLog[i].at > StartBefore(i) =>
                      rlLog[i].ok /\ rlLog[i].start = rlLog[i].at /\ rlLog[i].count = 1
               /\ ~rlLog[i].ok => rlLog[i].at = StartBefore(i)
        /\ \A t \in 0..MaxTime :
               Cardinality({i \in RLAllowed : rlLog[i].at = t}) <= rate_limiter.limit

\* With a zero window more than N calls were allowed, and one was denied.
C6_Witness ==
    /\ NoWindowConfigured
    /\ rate_limiter.limit > 0
    /\ Cardinality(RLAllowed) > rate_limiter.limit
    /\ \E i \in DOMAIN rlLog : ~rlLog[i].ok

(***************************************************************************)
(* C7: with a burst of zero, configured or absent, the limit is zero and   *)
(* every allow() call returns true: no flush is dropped by the limiter.    *)
(***************************************************************************)
C7_ZeroBurstAlwaysAllows ==
    (~cfg.rate_limit_burst.some \/ cfg.rate_limit_burst.val = 0) =>
        /\ rate_limiter.limit = 0
        /\ DeniedCalls = {}
        /\ \A k \in DOMAIN cuts :
               \/ \E i \in DOMAIN sink : sink[i].cut = k
               \/ \E t \in Tasks : cutOf[t] = k

\* No burst is configured, a window is, and flushes went to the sink at different instants.
C7_Witness ==
    /\ ~cfg.rate_limit_burst.some
    /\ cfg.rate_limit_window.some
    /\ Len(sink) >= 2
    /\ now > rate_limiter.window

(***************************************************************************)
(* C8: a flush the limiter denied is dropped: its allow() is not asked     *)
(* again, no task holds its message any more, the sink never receives it,  *)
(* and its lines are not in the buffer, which holds exactly the lines      *)
(* accepted after the last cut.                                            *)
(***************************************************************************)
C8_DeniedIsDropped ==
    \A i \in DeniedCalls :
        LET k == allowLog[i].cut
            flushed == Len(FlushedLines(Len(cuts)))
        IN /\ \A j \in DOMAIN allowLog : allowLog[j].cut = k => j = i
           /\ \A t \in Tasks : cutOf[t] # k
           /\ \A j \in DOMAIN sink : sink[j].cut # k
           /\ buffer = SubSeq(accepted, flushed + 1, Len(accepted) - Len(Pending))

\* A flush was denied, and a flush cut after it was delivered.
C8_Witness ==
    \E i \in DeniedCalls : \E j \in DOMAIN sink : sink[j].cut > allowLog[i].cut

(***************************************************************************)
(* C9: a line that matches the exclusion detector is never accepted, never *)
(* in the buffer and never in a flush message; when every line the primary *)
(* detector matched was excluded, nothing is buffered and nothing flushed. *)
(***************************************************************************)
C9_ExcludedNeverBuffered ==
    exclusion_detector.some =>
        LET Excluded(line) == Detect(exclusion_detector.val, line)
        IN /\ \A line \in Range(buffer) \cup Range(accepted) : ~Excluded(line)
           /\ \A k \in DOMAIN cuts :
                  \A line \in Range(SplitLines(cuts[k].msg)) : ~Excluded(line)
           /\ \A k \in DOMAIN sink :
                  \A line \in Range(SplitLines(sink[k].message)) : ~Excluded(line)
           /\ (\A i \in DOMAIN readLog :
                   Detect(detector, readLog[i]) => Excluded(readLog[i]))
                  => (buffer = <<>> /\ cuts = <<>> /\ sink = <<>> /\ allowLog = <<>>)

\* Scenario B has been read to its end.
C9_Witness ==
    /\ cfg.pattern = "Error"
    /\ cfg.exclude_pattern = Some("disk full")
    /\ readLog = <<"ok", "Error: disk full", "ok">>
    /\ pc["reader"] = "stopped"

(***************************************************************************)
(* C10: the buffer reaches MAX_BUFFER_SIZE lines only by the push that     *)
(* starts the size-triggered flush; that flush cuts one message, made of   *)
(* the MAX_BUFFER_SIZE lines accepted since the last cut in acceptance     *)
(* order, and leaves the buffer empty.                                     *)
(***************************************************************************)
C10_SizeTriggeredFlush ==
    /\ Len(buffer) >= MAX_BUFFER_SIZE =>
           /\ Len(buffer) = MAX_BUFFER_SIZE
           /\ pc["reader"] = "clear"
           /\ ret["reader"] = "reading"
           /\ msg["reader"] = Some(Join(buffer))
    /\ \A k \in DOMAIN cuts :
           cuts[k].then = "reading" =>
               /\ cuts[k].by = "reader"
               /\ SplitLines(cuts[k].msg) =
                      SubSeq(accepted, Len(FlushedLines(k - 1)) + 1,
                             Len(FlushedLines(k - 1)) + MAX_BUFFER_SIZE)
    /\ (pc["reader"] \in {"send_allow", "send_capture"} /\ ret["reader"] = "reading") =>
           /\ buffer = <<>>
           /\ cutOf["reader"] = Len(cuts)

\* A size-triggered flush has been cut and delivered.
C10_Witness ==
    \E i \in DOMAIN sink :
        /\ cuts[sink[i].cut].then = "reading"
        /\ Len(SplitLines(sink[i].message)) = MAX_BUFFER_SIZE

(***************************************************************************)
(* The idle timer.  The instants are those of the promptly scheduled       *)
(* Monitor (SpecIdle), where a sleep ends at its deadline.                 *)
(***************************************************************************)
\* The stream is open, a line has been accepted, and none for at least d.
StreamIdleFor(d) ==
    /\ pc["reader"] = "reading"
    /\ accepted # <<>>
    /\ now - last_activity >= d

\* Every task waits: the steps of this instant are done.
Quiet == \A t \in Tasks : ~Runnable(t)

\* The longest a line waits for the idle flush when no line follows it: the wake-up that
\* finds it too young comes less than FLUSH_INTERVAL - 100 ms after it, the next one
\* FLUSH_INTERVAL later.
IdleBound == 2 * FLUSH_INTERVAL - FLUSH_SLACK

\* The accepted lines no flush has cut yet, as indices of accepted.
Unflushed == {i \in DOMAIN accepted : i > Len(FlushedLines(Len(cuts)))}

\* How long ago line i was accepted.
Age(i) == now - acceptedAt[i]

(***************************************************************************)
(* C11 as stated: when the stream has stayed open and no line has been     *)
(* accepted for the flush interval, the buffered lines have been flushed.  *)
(* The code does not do this: the timer wakes on its own period, and a     *)
(* wake-up that finds the last line younger than FLUSH_INTERVAL - 100 ms   *)
(* leaves the buffer for the next one.                                     *)
(***************************************************************************)
C11_IdleIntervalFlushes == (StreamIdleFor(FLUSH_INTERVAL) /\ Quiet) => buffer = <<>>

(***************************************************************************)
(* C11, amended: when the stream has stayed open and no line has been      *)
(* accepted for two flush intervals less 100 ms, the lines that were       *)
(* buffered have been cut by one flush: the buffer is empty, the flush     *)
(* messages hold exactly the accepted lines, and the last message ends     *)
(* with the last accepted line.                                            *)
(***************************************************************************)
C11_IdleTwoIntervalsFlushes ==
    StreamIdleFor(IdleBound) =>
        /\ buffer = <<>>
        /\ cur = None
        /\ cuts # <<>>
        /\ accepted = FlushedLines(Len(cuts))
        /\ LET last == SplitLines(cuts[Len(cuts)].msg)
           IN last = SubSeq(accepted, Len(accepted) - Len(last) + 1, Len(accepted))

\* The timer has flushed two lines, fewer than MAX_BUFFER_SIZE, of a stream that then
\* stayed open and idle.
C11_Witness ==
    /\ StreamIdleFor(IdleBound)
    /\ cuts[Len(cuts)].by = "timer"
    /\ Len(SplitLines(cuts[Len(cuts)].msg)) = 2
    /\ 2 < MAX_BUFFER_SIZE

(***************************************************************************)
(* C12 as stated: whenever the timer task flushes, no line has been        *)
(* accepted for at least FLUSH_INTERVAL.  The code's idle check lets the   *)
(* flush go on 100 ms earlier, and it is made before the buffer is locked. *)
(***************************************************************************)
C12_FlushOnlyAfterFullInterval ==
    pc["timer"] = "clear" => now - last_activity >= FLUSH_INTERVAL

(***************************************************************************)
(* C12, amended: the timer task goes on to lock the buffer only from a     *)
(* wake-up whose idle check found the last acceptance at least             *)
(* FLUSH_INTERVAL - 100 ms old, and it flushes only after that lock.       *)
(***************************************************************************)
C12_IdleCheckGatesFlush ==
    [][/\ (pc'["timer"] = "lock" /\ pc["timer"] # "lock") =>
              /\ pc["timer"] = "sleeping"
              /\ now >= sleepUntil["timer"]
              /\ now - last_activity >= FLUSH_INTERVAL - FLUSH_SLACK
       /\ (pc'["timer"] = "clear" /\ pc["timer"] # "clear") => pc["timer"] = "lock"]_vars

\* The timer task flushes although a line was accepted after its idle check.
C12_Witness ==
    /\ pc["timer"] = "clear"
    /\ now - last_activity < FLUSH_INTERVAL - FLUSH_SLACK

C14_AcceptedEventuallyFlushed ==
    \A n \in 1..MaxLines :
        (Len(accepted) >= n) ~> (Len(FlushedLines(Len(cuts))) >= n)

\* Every line the source had was accepted and flushed, one flush was the timer's, and
\* the stream is still open.
C14_Witness ==
    /\ Len(accepted) = MaxLines
    /\ Unflushed = {}
    /\ \E k \in DOMAIN cuts : cuts[k].by = "timer"
    /\ pc["reader"] = "reading"

(***************************************************************************)
(* The read loop's states.                                                 *)
(***************************************************************************)
\* The read loop is in send_to_sentry for the flush of a stream's end.
InFinalSend ==
    /\ pc["reader"] \in {"send_allow", "send_capture"}
    /\ ret["reader"] \in {"stopped", "restarting"}

\* The read loop takes a step that changes where it stands.
ReaderMoves == pc'["reader"] # pc["reader"]

(***************************************************************************)
(* C15: the read loop ends only by stop-on-exhaustion.  It comes to        *)
(* Stopped only with stop_on_eof set, and only from a stream that was      *)
(* opened and has ended (directly, or through the flush of that end); it   *)
(* never fails.  A failed open starts a 1 s sleep and the only step out of *)
(* it is back to Connecting once the sleep is over, however often that has *)
(* happened.  Without stop_on_eof the end of a stream, after its flush,    *)
(* starts a 1 s sleep which also ends in Connecting.                       *)
(***************************************************************************)
C15_LoopEndsOnlyByStopOnEof ==
    [][ReaderMoves =>
          /\ pc'["reader"] # "failed"
          /\ pc'["reader"] = "stopped" =>
                 /\ stop_on_eof
                 /\ pc["reader"] = "reading" \/ (InFinalSend /\ ret["reader"] = "stopped")
          /\ pc["reader"] = "connecting" => pc'["reader"] \in {"reading", "backoff"}
          /\ pc'["reader"] \in {"backoff", "restarting"} =>
                 sleepUntil'["reader"] = now + DurationFromSecs(1)
          /\ pc["reader"] \in {"backoff", "restarting"} =>
                 /\ pc'["reader"] = "connecting"
                 /\ now >= sleepUntil["reader"]
          /\ (~stop_on_eof /\ pc["reader"] = "reading") =>
                 \/ pc'["reader"] \in {"push", "restarting"}
                 \/ pc'["reader"] = "clear" /\ ret'["reader"] = "restarting"
          /\ (~stop_on_eof /\ InFinalSend) =>
                 pc'["reader"] \in {"send_capture", "restarting"}]_vars

\* Without stop_on_eof a stream was read and has ended, and the open after it failed.
C15_Witness ==
    /\ ~stop_on_eof
    /\ readLog # <<>>
    /\ pc["reader"] = "backoff"

(***************************************************************************)
(* C16: with stop_on_eof, the end of the first stream that was opened      *)
(* leads, through the flush of what the buffer holds, to Stopped: the loop *)
(* never sleeps to restart, it opens the source again only after a failed  *)
(* open, it comes to Stopped with every accepted line flushed, and it      *)
(* never leaves Stopped.                                                   *)
(***************************************************************************)
C16_StoppedIsTerminal ==
    [][stop_on_eof =>
          /\ pc'["reader"] # "restarting"
          /\ ret'["reader"] # "restarting"
          /\ (ReaderMoves /\ pc'["reader"] = "connecting") => pc["reader"] = "backoff"
          /\ (ReaderMoves /\ pc["reader"] = "reading") =>
                 \/ pc'["reader"] \in {"push", "stopped"}
                 \/ pc'["reader"] = "clear" /\ ret'["reader"] = "stopped"
          /\ pc'["reader"] = "stopped" =>
                 /\ buffer' = <<>>
                 /\ cur' = None
                 /\ Unflushed = {}
                 /\ accepted' = accepted /\ cuts' = cuts
          /\ pc["reader"] = "stopped" => (pc'["reader"] = "stopped" /\ source' = source)]_vars

\* The loop has stopped after the flush of the stream's end, and time has passed since.
C16_Witness ==
    /\ stop_on_eof
    /\ pc["reader"] = "stopped"
    /\ \E k \in DOMAIN cuts : cuts[k].then = "stopped"
    /\ now = MaxTime

(***************************************************************************)
(* C17: a read that fails ends the stream's iteration as a clean end does: *)
(* the read loop locks the buffer and, if it holds lines, joins them into  *)
(* the message of a flush that returns to the stop-or-restart decision,    *)
(* else it goes to that decision at once; it comes to the decision only    *)
(* with every accepted line flushed, and start() never returns an error.   *)
(***************************************************************************)
C17_ReadFailureLikeEof ==
    [][/\ \A r \in ReadEnds :
              StreamEnd(r) =>
                  /\ bufferLock = "free"
                  /\ IF Len(buffer) > 0
                     THEN /\ pc'["reader"] = "clear"
                          /\ bufferLock' = "reader"
                          /\ msg'["reader"] = Some(Join(buffer))
                          /\ ret'["reader"] = AfterFlush
                     ELSE pc'["reader"] = AfterFlush
       /\ pc'["reader"] # "failed"
       /\ (ReaderMoves /\ pc'["reader"] \in {"restarting", "stopped"}) =>
              (buffer = <<>> /\ Unflushed = {})]_vars

\* The read of a file has failed before the file's end, with a line in the buffer.
C17_Witness ==
    /\ source.kind = "file"
    /\ source.pos < Len(source.content)
    /\ pc["reader"] = "clear"
    /\ ret["reader"] = AfterFlush

(***************************************************************************)
(* C18: the lines go through the Monitor in source order.  The accepted    *)
(* lines are the lines read that pass the detectors, in the order read;    *)
(* the flush messages, in the order cut, and then the buffer list these    *)
(* lines in that order, each message a run of consecutive accepted lines.  *)
(***************************************************************************)
C18_SourceOrder ==
    LET passed == SelectSeq(readLog, Accepts)
        flushed == Len(FlushedLines(Len(cuts)))
    IN /\ accepted = passed
       /\ buffer = SubSeq(passed, flushed + 1, flushed + Len(buffer))
       /\ \A k \in DOMAIN cuts :
              LET before == Len(FlushedLines(k - 1))
                  lines == SplitLines(cuts[k].msg)
              IN lines = SubSeq(passed, before + 1, before + Len(lines))

\* Two different lines with a line between them that no detector matched were accepted
\* and flushed in one message.
C18_Witness ==
    /\ readLog = <<"Error: timeout", "ok", "Error: disk full">>
    /\ cuts # <<>>
    /\ cuts[1].msg = "Error: timeout\nError: disk full"

(***************************************************************************)
(* C19 as stated: a Monitor on a file that holds "ok", "Error: disk full", *)
(* "ok", with pattern Error, no exclusion and no rate limit, cuts one      *)
(* flush, whose message is "Error: disk full": never a second one, and     *)
(* that one by the time the file has been read to its end and the read     *)
(* loop has gone on.  The code cuts the same flush again after every       *)
(* restart, since FileSource::stream opens the file at its first line.     *)
(***************************************************************************)
C19_ScenarioAOneFlush ==
    (/\ source.kind = "file"
     /\ source.content = <<"ok", "Error: disk full", "ok">>
     /\ cfg.pattern = "Error"
     /\ ~exclusion_detector.some
     /\ rate_limiter.limit = 0) =>
        /\ Len(cuts) <= 1
        /\ \A k \in DOMAIN cuts : cuts[k].msg = "Error: disk full"
        /\ (pc["reader"] \in {"restarting", "stopped"} /\ AtEnd(source)) => Len(cuts) = 1

(***************************************************************************)
(* The stateful correlator.                                                *)
(***************************************************************************)
\* The line matches the error vocabulary, in any case of its letters.
ErrorLines ==
    {line \in DmesgLines :
        \E word \in {"error", "fail", "panic", "oops", "exception"} :
            Occurs(word, ToLower(line))}
IsErrorLine(line) == line \in ErrorLines

\* The lines that start with a bracketed timestamp.
TimestampLines == {line \in DmesgLines : StartMatch(line).some}
HasTimestamp(line) == line \in TimestampLines
TimestampOf(line) == ParseF64(StartMatch(line).val.text)

\* The lines that have a header: the text between the timestamp and the first colon.
HeaderLines == {line \in DmesgLines : LineMatch(line).some}
HasHeader(line) == line \in HeaderLines
HeaderOf(line) == LineMatch(line).val.header

(***************************************************************************)
(* C20 as stated: detect() returns true for every line that matches the    *)
(* error vocabulary, and after the call the state holds the timestamp of   *)
(* that line if it has one and the header of that line if it has one.  The *)
(* code leaves the last match time as it was when the line's timestamp is  *)
(* 0.0 and when the line has a timestamp and no header.                    *)
(***************************************************************************)
C20_ErrorLineRecorded ==
    \A i \in DOMAIN detectLog :
        LET call == detectLog[i]
        IN IsErrorLine(call.line) =>
               /\ call.result
               /\ HasTimestamp(call.line) =>
                      call.after.last_match_time = TimestampOf(call.line)
               /\ HasHeader(call.line) =>
                      call.after.last_match_header = HeaderOf(call.line)

(***************************************************************************)
(* C21: as long as no header of a match has been recorded, detect()        *)
(* returns true exactly for the lines that match the error vocabulary:     *)
(* every other line, new record or continuation, is not reported, also     *)
(* after a match that had no header.                                       *)
(***************************************************************************)
C21_NoHeaderOnlyErrors ==
    \A i \in DOMAIN detectLog :
        LET call == detectLog[i]
        IN call.before.last_match_header = "" =>
               (call.result <=> IsErrorLine(call.line))

\* After a match without a header, a new record and a continuation were not reported.
C21_Witness ==
    /\ Len(detectLog) = 3
    /\ IsErrorLine(detectLog[1].line) /\ detectLog[1].result
    /\ detectLog[2].before.last_match_header = ""
    /\ HasTimestamp(detectLog[2].line) /\ ~detectLog[2].result
    /\ detectLog[3].before.last_match_header = ""
    /\ ~HasTimestamp(detectLog[3].line) /\ ~detectLog[3].result

\* The distance of two numbers.
Dist(a, b) == IF a >= b THEN a - b ELSE b - a

\* Two headers are equal, or one is a prefix of the other, after trimming.
Related(a, b) ==
    \/ Trim(a) = Trim(b)
    \/ StartsWith(Trim(a), Trim(b))
    \/ StartsWith(Trim(b), Trim(a))

\* The line of the call is no error line and starts with a timestamp.
NewRecord(call) == ~IsErrorLine(call.line) /\ HasTimestamp(call.line)

\* The line of the call is no error line and does not start with a timestamp.
Continuation(call) == ~IsErrorLine(call.line) /\ ~HasTimestamp(call.line)

(***************************************************************************)
(* C22 as stated: with a header of a match recorded, a non-error line that *)
(* starts a new record is reported if and only if it has a header and a    *)
(* timestamp, the timestamp is within 5.0 of the recorded match time and   *)
(* the headers are related.  The code does not report a record whose       *)
(* timestamp is 0.0, and it reports a related record whose timestamp is    *)
(* more than 5.0 before the recorded match time.                           *)
(***************************************************************************)
C22_NewRecordRelated ==
    \A i \in DOMAIN detectLog :
        LET call == detectLog[i]
        IN (NewRecord(call) /\ call.before.last_match_header # "") =>
               (call.result <=>
                    /\ HasHeader(call.line)
                    /\ Dist(TimestampOf(call.line), call.before.last_match_time)
                           <= Milli(5)
                    /\ Related(call.before.last_match_header, HeaderOf(call.line)))

(***************************************************************************)
(* C23 as stated: a non-error continuation line that follows a match is    *)
(* always reported.                                                        *)
(***************************************************************************)
C23_ContinuationAfterMatch ==
    \A i \in DOMAIN detectLog :
        (i > 1 /\ IsErrorLine(detectLog[i - 1].line) /\ Continuation(detectLog[i]))
            => detectLog[i].result

(***************************************************************************)
(* C23, amended: a non-error continuation line is reported exactly when a  *)
(* header of a match has been recorded, however long ago and whatever      *)
(* lines came in between; after matches without a header it is not.        *)
(***************************************************************************)
C23_ContinuationAfterHeader ==
    \A i \in DOMAIN detectLog :
        Continuation(detectLog[i]) =>
            (detectLog[i].result <=> detectLog[i].before.last_match_header # "")

\* A continuation was reported after a match with a header and a record not reported.
C23_Witness ==
    /\ Len(detectLog) = 3
    /\ IsErrorLine(detectLog[1].line) /\ HasHeader(detectLog[1].line)
    /\ NewRecord(detectLog[2]) /\ ~detectLog[2].result
    /\ Continuation(detectLog[3]) /\ detectLog[3].result

(***************************************************************************)
(* The detector factory and main()'s start loop.                           *)
(***************************************************************************)
\* The pattern is one Regex::new accepts.
ValidPatterns == {pattern \in {c.pattern : c \in MonitorConfigs} : RegexNew(pattern).ok}
ValidPattern(pattern) == pattern \in ValidPatterns

\* The keyword detector reports a line with one of its keywords and no other.
NginxDetectsKeywords ==
    /\ Detect(NginxDetector, "upstream CRIT failure")
    /\ ~Detect(NginxDetector, "GET /index.html 200")

\* The default detector reports "error" in any case of its letters.
DefaultDetectsError == Detect(GenericDetector("(?i)error"), "An ERROR occurred")

(***************************************************************************)
(* C24 as stated: a non-empty pattern yields a generic detector with that  *)
(* pattern whatever the format; with an empty pattern nginx yields the     *)
(* keyword detector, dmesg the stateful correlator and any other format a  *)
(* generic case-insensitive "error" detector.  A non-empty pattern that is *)
(* no valid expression yields no detector.                                 *)
(***************************************************************************)
C24_FactoryYieldsDetector ==
    \A i \in DOMAIN main.calls :
        LET call == main.calls[i]
        IN /\ call.result.ok
           /\ IF call.pattern # ""
              THEN call.result.val = [kind |-> "generic", pattern |-> call.pattern]
              ELSE IF call.format = "nginx" THEN call.result.val.kind = "nginx"
              ELSE IF call.format = "dmesg" THEN call.result.val.kind = "dmesg"
              ELSE call.result.val = [kind |-> "generic", pattern |-> "(?i)error"]

(***************************************************************************)
(* C24, amended: a non-empty pattern decides alone, whatever the format:   *)
(* a valid one yields a generic detector with exactly that pattern, an     *)
(* invalid one yields an error and no detector, without falling back on    *)
(* the format.  With an empty pattern nginx yields the keyword detector,   *)
(* dmesg the stateful correlator with an empty last match, and any other   *)
(* format a generic case-insensitive "error" detector.                     *)
(***************************************************************************)
C24_FactoryByPatternThenFormat ==
    \A i \in DOMAIN main.calls :
        LET call == main.calls[i]
        IN IF call.pattern # ""
           THEN IF ValidPattern(call.pattern)
                THEN /\ call.result.ok
                     /\ call.result.val = [kind |-> "generic", pattern |-> call.pattern]
                ELSE ~call.result.ok
           ELSE /\ call.result.ok
                /\ IF call.format = "nginx"
                   THEN /\ call.result.val = NginxDetector
                        /\ NginxDetectsKeywords
                   ELSE IF call.format = "dmesg"
                   THEN /\ call.result.val.kind = "dmesg"
                        /\ call.result.val.state.last_match_header = ""
                   ELSE /\ call.result.val = GenericDetector("(?i)error")
                        /\ DefaultDetectsError

\* A pattern has won over the format nginx, and the format dmesg has decided for an
\* empty pattern.
C24_Witness ==
    /\ Len(main.calls) = 2
    /\ main.calls[1].format = "nginx" /\ main.calls[1].pattern = "Error"
    /\ main.calls[1].result.ok
    /\ main.calls[2].format = "dmesg" /\ main.calls[2].pattern = ""
    /\ main.calls[2].result.ok

\* The monitor of the i-th configuration was started.
Started(i) == \E h \in DOMAIN main.handles : main.handles[h].at = i

LastCall(log) == log[Len(log)]

\* A call has just been made, and it is a close().
CloseCalled == Len(srcLog') = Len(srcLog) + 1 /\ LastCall(srcLog').op = "close"

\* No stream() call has succeeded since the source was made or last closed.
NothingToClose ==
    \/ \A i \in DOMAIN srcLog : ~(srcLog[i].op = "stream" /\ srcLog[i].ok)
    \/ \E i \in DOMAIN srcLog :
          /\ srcLog[i].op = "close"
          /\ \A j \in DOMAIN srcLog : j > i => ~(srcLog[j].op = "stream" /\ srcLog[j].ok)

C26_TasksExitWithinOneCycle ==
    \A g \in DOMAIN syslog.streams : \A k \in DOMAIN syslog.streams[g].tasks :
        syslog.streams[g].tasks[k].late <= 1

\* The concatenation of the first k messages.
RECURSIVE Concat(_, _)
Concat(msgs, k) == IF k = 0 THEN "" ELSE Concat(msgs, k - 1) \o msgs[k]

\* The messages the reader has taken off the channel.
Taken == Len(reader.sent) - Len(reader.rx.queue)

\* C30: what the ChannelReader has yielded is the concatenation, in the order sent,
\* of the messages before the current one and of the current one up to the cursor;
\* the end of the stream is signalled only when the channel is closed, nothing is
\* queued, and all bytes of all messages have been yielded.
C30_ReaderYieldsConcatenation ==
    /\ reader.current_chunk.some =>
          /\ Taken >= 1
          /\ reader.current_chunk.val.inner = reader.sent[Taken]
          /\ reader.bytes = Concat(reader.sent, Taken - 1)
                                \o SubSeq(reader.sent[Taken], 1, reader.current_chunk.val.pos)
    /\ ~reader.current_chunk.some => reader.bytes = Concat(reader.sent, Taken)
    /\ reader.last = "eof" =>
          /\ reader.rx.closed
          /\ reader.rx.queue = <<>>
          /\ reader.bytes = Concat(reader.sent, Len(reader.sent))

\* Three messages were sent, the first two read in pieces, and the end of the stream
\* came after the senders were dropped.
C30_Witness ==
    /\ reader.sent = <<"bc\n", "", "a\n">>
    /\ reader.bytes = "bc\na\n"
    /\ reader.last = "eof"

\* The state of the main loop when the read loop stands at p and its flush, if it is
\* in one, returns to r: a flush that returns to the reading is part of Reading.
Phase(p, r) ==
    IF p \in {"connecting", "backoff"} THEN "Connecting"
    ELSE IF p \in {"reading", "push"} THEN "Reading"
    ELSE IF p \in {"clear", "send_allow", "send_capture"}
    THEN (IF r = "reading" THEN "Reading" ELSE "Flushing")
    ELSE IF p = "restarting" THEN "Restarting"
    ELSE IF p = "stopped" THEN "Stopped"
    ELSE "Failed"

\* The changes of state of the main loop.
Transitions ==
    {<<"Connecting", "Reading">>, <<"Reading", "Flushing">>, <<"Flushing", "Restarting">>,
     <<"Flushing", "Stopped">>, <<"Restarting", "Connecting">>}

(***************************************************************************)
(* C28: the main loop changes state only along Connecting -> Reading ->    *)
(* Flushing -> (Restarting -> Connecting) | Stopped, a failed open staying *)
(* in Connecting.  The flush of the stream's end is passed in the same     *)
(* step only when it finds the buffer unlocked and empty; the loop comes   *)
(* to Restarting or Stopped with an empty buffer and every accepted line   *)
(* flushed; Stopped is never left.                                         *)
(***************************************************************************)
C28_MainLoopTransitions ==
    [][LET from == Phase(pc["reader"], ret["reader"])
           to == Phase(pc'["reader"], ret'["reader"])
       IN /\ to # "Failed"
          /\ from # to =>
                \/ <<from, to>> \in Transitions
                \/ /\ from = "Reading" /\ to \in {"Restarting", "Stopped"}
                   /\ pc["reader"] = "reading"
                   /\ buffer = <<>> /\ bufferLock = "free"
          /\ (pc["reader"] = "connecting" /\ pc'["reader"] # "connecting") =>
                pc'["reader"] \in {"reading", "backoff"}
          /\ (pc["reader"] = "backoff" /\ pc'["reader"] # "backoff") =>
                pc'["reader"] = "connecting"
          /\ (from # to /\ to \in {"Restarting", "Stopped"}) =>
                /\ buffer' = <<>>
                /\ Unflushed = {}
                /\ to = "Stopped" <=> stop_on_eof
          /\ from = "Stopped" => to = "Stopped"]_vars

\* The loop went round: a stream's end was flushed by the read loop, the loop
\* restarted, and the source is read again.
C28_Witness ==
    /\ pc["reader"] = "reading"
    /\ \E k \in DOMAIN cuts : cuts[k].then = "restarting" /\ cuts[k].by = "reader"
    /\ Len(sink) >= 1

\* The locks task t holds.
HeldBy(t) ==
    {l \in {"buffer", "last_activity", "rate_limiter"} :
        \/ l = "buffer" /\ bufferLock = t
        \/ l = "last_activity" /\ locks.last_activity = t
        \/ l = "rate_limiter" /\ locks.rate_limiter = t}

\* Task t stands where it waits: on the source (the open, the next line), on a sleep,
\* on a lock, on the system-state read and the sink call; or it has not started or has
\* ended.  Only in the clear of a flush, between the join and the drop of the guard,
\* does it not wait.
AtWait(t) == pc[t] # "clear"

(***************************************************************************)
(* C29: each of the three locks is held only for its critical section.  A  *)
(* task that waits on source I/O, a sleep, the sink call, the system-state *)
(* read or a lock holds no lock; a task holds at most the buffer lock, and *)
(* then it stands in the clear of its flush, which it can finish by        *)
(* itself: a task that waits for a lock is never waited for by its holder. *)
(***************************************************************************)
C29_LocksOnlyInCriticalSection ==
    \A t \in Tasks :
        /\ AtWait(t) => HeldBy(t) = {}
        /\ HeldBy(t) \subseteq {"buffer"}
        /\ bufferLock = t => (pc[t] = "clear" /\ msg[t].some)

\* The timer waits for the buffer lock while the read loop, which has asked the
\* limiter before, holds it in a flush.
C29_Witness ==
    /\ bufferLock = "reader"
    /\ pc["timer"] = "lock"
    /\ allowLog # <<>>

\* C31: the channel between the listener tasks of a SyslogSource and the reader never
\* holds more messages than its capacity, whatever the order in which the producers
\* and the consumer run: a task whose send finds the channel full stays at the send.
C31_ChannelBounded ==
    \A g \in DOMAIN syslog.streams : Len(syslog.streams[g].chan) <= CHANNEL_CAPACITY

\* The channel is full, its reader is there, and a task waits at its send.
C31_Witness ==
    \E g \in DOMAIN syslog.streams :
        /\ Len(syslog.streams[g].chan) = CHANNEL_CAPACITY
        /\ syslog.streams[g].rx
        /\ \E k \in DOMAIN syslog.streams[g].tasks : syslog.streams[g].tasks[k].pc = "send"

\* The data ends with a newline.
EndsWithNewline(data) == Len(data) > 0 /\ Char(data, Len(data)) = "\n"

\* C39: every message a listener or connection task of a SyslogSource sends or has
\* put on the channel ends with a newline, whichever task it comes from and however
\* the tasks interleave: the end of every message is the end of a line, so that no
\* line the reader yields holds bytes of two messages.
C39_MessagesEndLines ==
    \A g \in DOMAIN syslog.streams :
        LET st == syslog.streams[g]
        IN /\ \A i \in DOMAIN st.chan : EndsWithNewline(st.chan[i])
           /\ \A k \in DOMAIN st.tasks :
                 st.tasks[k].pc = "send" => EndsWithNewline(st.tasks[k].data)

\* Two connection tasks of one stream stand at their sends at the same time, one of
\* them with a line that came without a newline.
C39_Witness ==
    \E g \in DOMAIN syslog.streams :
        LET st == syslog.streams[g]
        IN /\ Len(st.tasks) = 3
           /\ st.tasks[2].pc = "send" /\ st.tasks[3].pc = "send"
           /\ st.tasks[2].data = "b\n" /\ st.tasks[3].data = "a\n"

\* C38: when the last call on a process-backed source is a close(), no child the
\* source has spawned is running.
C38_NoChildAfterClose ==
    (source.kind \in ProcessKinds /\ srcLog # <<>> /\ LastCall(srcLog).op = "close")
        => children = {}
(***************************************************************************)
(* C40: a Monitor started for a configuration whose format resolves to     *)
(* "dmesg" or "nginx", the user having given no pattern, has the detector  *)
(* of that format (the stateful correlator, the keyword detector).         *)
(***************************************************************************)
C40_FormatSelectsSpecialization ==
    \A h \in DOMAIN main.handles :
        LET mon_cfg == main.monitors[main.handles[h].at]
            format == DetermineDetectorFormat(mon_cfg)
        IN (~main.cli.pattern.some /\ format \in {"dmesg", "nginx"})
               => main.handles[h].detector.kind = format
\* The cut c has passed through send_to_sentry: handed to the sink, or denied.
Settled(c) ==
    \/ \E i \in DOMAIN sink : sink[i].cut = c
    \/ \E i \in DOMAIN allowLog : allowLog[i].cut = c /\ ~allowLog[i].ok

(***************************************************************************)
(* C32: in one-shot mode, when the read loop has returned (Stopped) the    *)
(* buffer is empty and every message cut from it, by the timer task as by  *)
(* the read loop, has been handed to the sink or denied by the limiter.    *)
(***************************************************************************)
C32_NothingPendingAtStopped ==
    (stop_on_eof /\ pc["reader"] = "stopped")
        => /\ buffer = <<>>
           /\ \A c \in DOMAIN cuts : Settled(c)
(***************************************************************************)
(* C33: the flush messages of the Monitor are put to the RateLimiter, and  *)
(* reach the sink, in the order in which they were cut from the buffer,    *)
(* whichever of the timer task and the read loop cut them.                 *)
(***************************************************************************)
C33_FlushesKeepCutOrder ==
    /\ \A i, j \in DOMAIN allowLog : i < j => allowLog[i].cut < allowLog[j].cut
    /\ \A i, j \in DOMAIN sink : i < j => sink[i].cut < sink[j].cut
\* The places of the file whose line the Monitor accepts.
MatchingPlaces == {i \in DOMAIN source.content : Accepts(source.content[i])}

(***************************************************************************)
(* C34: a Monitor on a file, without stop-on-exhaustion, accepts each      *)
(* matching line of the file at most once: it never has accepted more      *)
(* lines than the file holds matching ones.                                *)
(***************************************************************************)
C34_FileLinesAcceptedOnce ==
    (source.kind = "file" /\ ~stop_on_eof)
        => Len(accepted) <= Cardinality(MatchingPlaces)
\* The allowed calls made from instant s to instant s + window, both included.
AllowedWithin(s) ==
    {i \in RLAllowed : s <= rlLog[i].at /\ rlLog[i].at <= s + rate_limiter.window}

(***************************************************************************)
(* C37: a RateLimiter with limit N > 0 and window W > 0 allows at most 2N  *)
(* calls over any stretch of time of length W, wherever the stretch        *)
(* begins: the stretch meets at most two windows of the limiter.           *)
(***************************************************************************)
C37_SlidingWindowBound ==
    (rate_limiter.limit > 0 /\ rate_limiter.window > 0)
        => \A s \in 0..MaxTime :
               /\ Cardinality(AllowedWithin(s)) <= 2 * rate_limiter.limit
               /\ Cardinality({rlLog[i].start : i \in AllowedWithin(s)}) <= 2

\* A stretch of length W that is not aligned to a window start holds 2N allowed calls,
\* N of one window and N of the next.
C37_Witness ==
    /\ rate_limiter.limit > 0
    /\ rate_limiter.window > 0
    /\ \E s \in 1..MaxTime :
           /\ Cardinality(AllowedWithin(s)) = 2 * rate_limiter.limit
           /\ Cardinality({rlLog[i].start : i \in AllowedWithin(s)}) = 2
           /\ \A i \in AllowedWithin(s) : rlLog[i].start # s
\* The call j is the nearest call before i whose line starts with a timestamp.
NearestRecord(i, j) ==
    /\ j < i
    /\ HasTimestamp(detectLog[j].line)
    /\ \A k \in DOMAIN detectLog : (j < k /\ k < i) => ~HasTimestamp(detectLog[k].line)

(***************************************************************************)
(* C35: the stateful correlator reports a continuation line (no timestamp, *)
(* no error word) only if the nearest timestamped record before it was     *)
(* reported: after a rejected record, the lines that continue it are not   *)
(* reported on account of an older match.                                  *)
(***************************************************************************)
C35_ContinuationFollowsItsRecord ==
    \A i \in DOMAIN detectLog :
        (/\ ~HasTimestamp(detectLog[i].line)
         /\ ~IsErrorLine(detectLog[i].line)
         /\ detectLog[i].result)
            => \E j \in DOMAIN detectLog : NearestRecord(i, j) /\ detectLog[j].result
\* The line is dropped by the exclusion detector, the primary detector being d.
Excluded(d, line) ==
    /\ Detect(d, line)
    /\ exclusion_detector.some
    /\ Detect(exclusion_detector.val, line)

\* The lines the read loop accepts out of the given ones, its detector being d at first.
RECURSIVE AcceptedOf(_, _)
AcceptedOf(d, lines) ==
    IF lines = <<>> THEN <<>>
    ELSE LET line == Head(lines)
         IN (IF Detect(d, line) /\ ~Excluded(d, line) THEN <<line>> ELSE <<>>)
                \o AcceptedOf(Detected(d, line), Tail(lines))

\* The given lines less those the read loop drops by exclusion.
RECURSIVE NotExcluded(_, _)
NotExcluded(d, lines) ==
    IF lines = <<>> THEN <<>>
    ELSE LET line == Head(lines)
         IN (IF Excluded(d, line) THEN <<>> ELSE <<line>>)
                \o NotExcluded(Detected(d, line), Tail(lines))

\* The primary detector as Monitor::new receives it.
FreshDetector == GetDetector(cfg.format, cfg.pattern).val

(***************************************************************************)
(* C36: a line dropped by the exclusion detector has no effect on the      *)
(* detection of the later lines: the lines the Monitor has accepted are    *)
(* those it would have accepted had it read the same lines without the     *)
(* excluded ones.                                                          *)
(***************************************************************************)
C36_ExcludedLineLeavesNoTrace ==
    accepted = AcceptedOf(FreshDetector, NotExcluded(FreshDetector, readLog))
====
